---- MODULE Spec2Model ----
(***************************************************************************)
(* Symmetry-reduced finite-difference engine of aiida-vibroscopy           *)
(* (calculations/symmetry.py): selection of the irreducible electric-field *)
(* directions, expansion of the evaluated directions by the space-group    *)
(* operations, transformation of a single evaluation.                      *)
(*                                                                         *)
(* Number representation.  Cartesian rotations are rationals: a matrix of  *)
(* integer numerators over one positive denominator.  A float rounded with *)
(* .round(2) is the integer number of hundredths.  Fractional coordinates  *)
(* and translations are integers in units of 1/4 of a lattice vector.      *)
(*                                                                         *)
(* The second part is the DielectricWorkChain of                           *)
(* workflows/dielectric/base.py, which submits the scfs with the electric  *)
(* fields and hands their results to the numerical derivatives.  Electric  *)
(* fields are integers in units of 1e-4 Ry a.u., field magnitudes are      *)
(* rationals [num, den], diagonal_scale is an integer number of            *)
(* thousandths.                                                            *)
(***************************************************************************)
EXTENDS Integers, Sequences, FiniteSets, TLC

VARIABLES
    cell,          \* phonopy unit cell: [lattice, positions]
    operations,    \* phonopy symmetry operations: sequence of [r, t]
    symprec,       \* square of preprocess_data.symprec, in (1/4 lattice unit)^2
    number_id,     \* size of the perturbation space, 3 or 6
    accuracy_order,\* number of points of the central difference
    set_order,     \* iteration order of the Python set of rotated directions
    pc,            \* position of the caller: start, selected, done, connected, transformed
    irr_numbers,   \* result of get_irreducible_numbers_and_signs: the numbers
    irr_signs,     \* result of get_irreducible_numbers_and_signs: the signs
    data,          \* the caller's dictionary of evaluations, number -> subvalues
    full_data,     \* result of get_trajectories_from_symmetries
    error,         \* exception raised by the last call, "none" when it returned
    call,          \* arguments and result of the last single-function call
    inputs,        \* DielectricWorkChain: the inputs of the work chain
    step,          \* DielectricWorkChain: the outline step to run next, or how it ended
    ctx,           \* DielectricWorkChain: self.ctx
    processes,     \* the sub-processes submitted so far, the pk is the index
    awaitables,    \* the pks the work chain is waiting for
    outputs,       \* the outputs published by the work chain, output name -> value
    exit_status,   \* exit status of the work chain, 0 until it returns an exit code
    out_of_order,  \* history: a sub-process terminated before one submitted earlier
    exit_message   \* the direction formatted in the message of the exit code, "" if none

\* The variables of the symmetry engine and of the work chain.
engine == <<cell, operations, symprec, number_id, accuracy_order, set_order,
            pc, irr_numbers, irr_signs, data, full_data, error, call>>

workchain == <<inputs, step, ctx, processes, awaitables, outputs, exit_status, out_of_order,
               exit_message>>

vars == <<cell, operations, symprec, number_id, accuracy_order, set_order,
          pc, irr_numbers, irr_signs, data, full_data, error, call,
          inputs, step, ctx, processes, awaitables, outputs, exit_status, out_of_order,
          exit_message>>

\* Largest accuracy_order / 2 of the central difference.
MaxHalfOrder == 2
\* Number of set iteration orders tried, minus one.
MaxSetOrder == 1

(***************************************************************************)
(* Linear algebra on 3-vectors and 3x3 matrices (numpy).                   *)
(***************************************************************************)
Dot(a, b) == a[1] * b[1] + a[2] * b[2] + a[3] * b[3]

Col(M, j) == <<M[1][j], M[2][j], M[3][j]>>

Transpose(M) == <<Col(M, 1), Col(M, 2), Col(M, 3)>>

MatVec(M, v) == <<Dot(M[1], v), Dot(M[2], v), Dot(M[3], v)>>

MatMul(A, B) ==
    LET row(a, c1, c2, c3) == <<Dot(a, c1), Dot(a, c2), Dot(a, c3)>>
        rows(c1, c2, c3) == <<row(A[1], c1, c2, c3), row(A[2], c1, c2, c3), row(A[3], c1, c2, c3)>>
    IN  rows(Col(B, 1), Col(B, 2), Col(B, 3))

Negative(v) == <<-v[1], -v[2], -v[3]>>

VecAdd(a, b) == <<a[1] + b[1], a[2] + b[2], a[3] + b[3]>>

VecSub(a, b) == <<a[1] - b[1], a[2] - b[2], a[3] - b[3]>>

Scale(k, v) == <<k * v[1], k * v[2], k * v[3]>>

Nxt(i) == (i % 3) + 1

\* Cofactor of M at (i, j); the cyclic indices carry the sign.
Cof(M, i, j) ==
    LET minor(a, b, c, d) == M[a][c] * M[b][d] - M[a][d] * M[b][c]
    IN  minor(Nxt(i), Nxt(Nxt(i)), Nxt(j), Nxt(Nxt(j)))

Det3(M) == Dot(M[1], <<Cof(M, 1, 1), Cof(M, 1, 2), Cof(M, 1, 3)>>)

\* Adjugate: inv(M) = Adj3(M) / Det3(M).
Adj3(M) ==
    <<<<Cof(M, 1, 1), Cof(M, 2, 1), Cof(M, 3, 1)>>,
      <<Cof(M, 1, 2), Cof(M, 2, 2), Cof(M, 3, 2)>>,
      <<Cof(M, 1, 3), Cof(M, 2, 3), Cof(M, 3, 3)>>>>

Identity3 == <<<<1, 0, 0>>, <<0, 1, 0>>, <<0, 0, 1>>>>

Zero3 == <<0, 0, 0>>

\* A space-group operation: fractional rotation and translation (in quarters).
Op(r, t) == [r |-> r, t |-> t]

\* A fractional vector in quarters, modulo the lattice.
Mod4(v) == <<v[1] % 4, v[2] % 4, v[3] % 4>>

Abs(x) == IF x < 0 THEN -x ELSE x

\* numpy.rint of the rational a / b, b > 0: nearest integer, ties to even.
RintDiv(a, b) ==
    LET q == a \div b
        r == a % b
    IN  IF 2 * r < b THEN q
        ELSE IF 2 * r > b THEN q + 1
        ELSE IF q % 2 = 0 THEN q ELSE q + 1

\* Conversion of a float to int32 (numpy astype): truncation towards zero.
TruncDiv(a, b) == IF a >= 0 THEN a \div b ELSE -((-a) \div b)

\* phonopy similarity_transformation(rot, mat) = rot . mat . inv(rot), as a
\* rational matrix [num, den] with den > 0.
similarity_transformation(rot, mat) ==
    LET rational(n, d) ==
            IF d > 0 THEN [num |-> n, den |-> d]
            ELSE [num |-> <<Negative(n[1]), Negative(n[2]), Negative(n[3])>>, den |-> -d]
    IN  rational(MatMul(rot, MatMul(mat, Adj3(rot))), Det3(rot))

\* numpy.dot(r_cart, v).round(2).tolist(): the rotated vector in hundredths.
RotateRound2(r_cart, v) ==
    LET round2(w, den) == <<RintDiv(100 * w[1], den), RintDiv(100 * w[2], den), RintDiv(100 * w[3], den)>>
    IN  round2(MatVec(r_cart.num, v), r_cart.den)

\* numpy.dot(r_cart, v) for a vector whose rotated components are integers.
RotateExact(r_cart, v) ==
    LET exact(w, den) == <<w[1] \div den, w[2] \div den, w[3] \div den>>
    IN  exact(MatVec(r_cart.num, v), r_cart.den)

(***************************************************************************)
(* Sequences as Python lists.                                              *)
(***************************************************************************)
\* list.pop(i), i counted from 0.
Pop(s, i) == SubSeq(s, 1, i) \o SubSeq(s, i + 2, Len(s))

Contains(s, x) == \E i \in 1..Len(s) : s[i] = x

\* list.index(x), counted from 0; -1 stands for ValueError.
IndexOf(s, x) ==
    IF Contains(s, x)
    THEN (CHOOSE i \in 1..Len(s) : s[i] = x /\ \A k \in 1..(i - 1) : s[k] # x) - 1
    ELSE -1

\* list.remove(x): the first occurrence goes.
Remove(s, x) == IF Contains(s, x) THEN Pop(s, IndexOf(s, x)) ELSE s

Range(s) == {s[i] : i \in 1..Len(s)}

(***************************************************************************)
(* Canonical directions (utils/elfield_cards_functions).                   *)
(***************************************************************************)
\* get_vector_from_number(number, value): 0, 1, 2 are the Cartesian axes,
\* 3, 4, 5 the mixed directions yz, xz, xy.
get_vector_from_number(number, value) ==
    CASE number = 0 -> <<value, 0, 0>>
      [] number = 1 -> <<0, value, 0>>
      [] number = 2 -> <<0, 0, value>>
      [] number = 3 -> <<0, value, value>>
      [] number = 4 -> <<value, 0, value>>
      [] number = 5 -> <<value, value, 0>>

\* get_tuple_from_vector(vector): (number, sign) of a canonical direction or
\* of the negative of one.
get_tuple_from_vector(vector) ==
    IF \E n \in 0..5 : get_vector_from_number(n, 1) = vector
    THEN <<CHOOSE n \in 0..5 : get_vector_from_number(n, 1) = vector, 1>>
    ELSE <<CHOOSE n \in 0..5 : get_vector_from_number(n, -1) = vector, -1>>

(***************************************************************************)
(* get_connected_fields_with_operations                                    *)
(***************************************************************************)
\* Position of a rounded vector in the iteration order of a Python set: a
\* multiplicative hash of the vector, one order per odd multiplier.
HashKey(v, ord) ==
    ((((v[1] + 256) * 512 + (v[2] + 256)) * 512 + (v[3] + 256)) * ord) % 134217728

RECURSIVE SetToList(_, _)
SetToList(S, ord) ==
    IF S = {} THEN <<>>
    ELSE LET x == CHOOSE y \in S : \A z \in S : HashKey(y, ord) <= HashKey(z, ord)
         IN  <<x>> \o SetToList(S \ {x}, ord)

\* The rounded rotated field of operation k.
FieldCart(lattice, ops, field_direction, k) ==
    RotateRound2(similarity_transformation(Transpose(lattice), ops[k].r), field_direction)

\* The twelve vectors kept: the canonical directions and their negatives.
not_discarded ==
    [i \in 1..12 |->
        IF i <= 6 THEN get_vector_from_number(i - 1, 100)
        ELSE Negative(get_vector_from_number(i - 7, 100))]

\* index_to_pop holding every position: each direction is discarded.
IndexToPopEvery(directions, i) == [m \in 1..Len(directions) |-> m - 1]

\* index_to_pop: the positions of the directions that match none of not_discarded.
RECURSIVE IndexToPop(_, _)
IndexToPop(directions, i) ==
    IF i >= Len(directions) THEN <<>>
    ELSE (IF \E m \in 1..12 : not_discarded[m] = directions[i + 1] THEN <<>> ELSE <<i>>)
         \o IndexToPop(directions, i + 1)

\* for i in index_to_pop: directions.pop(i - count); count += 1
RECURSIVE PopLoop(_, _, _)
PopLoop(directions, index_to_pop, count) ==
    IF index_to_pop = <<>> THEN directions
    ELSE PopLoop(Pop(directions, Head(index_to_pop) - count), Tail(index_to_pop), count + 1)

\* The result built by a loop over `directions`, in the order of the set,
\* instead of a loop over the operations.
CollectInSetOrder(lattice, ops, field_direction, k, acc) ==
    LET first(v) == CHOOSE n \in 1..Len(ops) :
                        /\ FieldCart(lattice, ops, field_direction, n) = v
                        /\ \A j \in 1..(n - 1) : FieldCart(lattice, ops, field_direction, j) # v
    IN  [directions      |-> <<>>,
         directions_copy |-> acc.directions,
         rotations_set   |-> [m \in 1..Len(acc.directions) |-> ops[first(acc.directions[m])].r],
         translations_set |-> [m \in 1..Len(acc.directions) |-> ops[first(acc.directions[m])].t]]

\* The loop over the operations that keeps, for each direction still in
\* `directions`, the first operation that gives it.
RECURSIVE CollectLoop(_, _, _, _, _)
CollectLoop(lattice, ops, field_direction, k, acc) ==
    IF k > Len(ops) THEN acc
    ELSE LET body(field_cart) ==
                 IF Contains(acc.directions, field_cart)
                 THEN CollectLoop(lattice, ops, field_direction, k + 1,
                        [directions      |-> Remove(acc.directions, field_cart),
                         directions_copy |-> Append(acc.directions_copy, field_cart),
                         rotations_set   |-> Append(acc.rotations_set, ops[k].r),
                         translations_set |-> Append(acc.translations_set, ops[k].t)])
                 ELSE CollectLoop(lattice, ops, field_direction, k + 1, acc)
         IN  body(FieldCart(lattice, ops, field_direction, k))

\* The directions left after the unmatched ones are popped.
KeptDirections(lattice, ops, field_direction, ord) ==
    LET discard(directions) == PopLoop(directions, IndexToPop(directions, 0), 0)
    IN  discard(SetToList({FieldCart(lattice, ops, field_direction, k) : k \in 1..Len(ops)}, ord))

get_connected_fields_with_operations(lattice, ops, field_direction, ord) ==
    LET result(res) ==
            [fields |-> [i \in 1..Len(res.directions_copy) |->
                            <<TruncDiv(res.directions_copy[i][1], 100),
                              TruncDiv(res.directions_copy[i][2], 100),
                              TruncDiv(res.directions_copy[i][3], 100)>>],
             rotations |-> res.rotations_set,
             translations |-> res.translations_set]
    IN  result(CollectLoop(lattice, ops, field_direction, 1,
                    [directions      |-> KeptDirections(lattice, ops, field_direction, ord),
                     directions_copy |-> <<>>,
                     rotations_set   |-> <<>>,
                     translations_set |-> <<>>]))

(***************************************************************************)
(* get_irreducible_numbers_and_signs                                       *)
(***************************************************************************)
\* The inversion check made on the field itself, not on the opposite field.
SignsCheckingOwnField(lattice, ops, n, ord) ==
    [i \in 1..n |->
        LET field == get_vector_from_number(i - 1, 1)
            connected_fields == get_connected_fields_with_operations(lattice, ops, field, ord).fields
        IN  <<TRUE, ~Contains(connected_fields, field)>>]

\* First loop: the negative sign of a number is dropped when the opposite
\* field is among its connected fields.
SignsAfterInversionCheck(lattice, ops, n, ord) ==
    [i \in 1..n |->
        LET field == get_vector_from_number(i - 1, 1)
            connected_fields == get_connected_fields_with_operations(lattice, ops, field, ord).fields
        IN  <<TRUE, ~Contains(connected_fields, Negative(field))>>]

\* The reduction with irr_signs.pop(0) in place of irr_signs.pop(index).
RECURSIVE PopConnectedFirstSign(_, _, _)
PopConnectedFirstSign(irr, connected_fields, own) ==
    IF connected_fields = <<>> THEN irr
    ELSE LET number == get_tuple_from_vector(Head(connected_fields))[1]
             index == IndexOf(irr.numbers, number)
         IN  IF number # own /\ index >= 0
             THEN PopConnectedFirstSign([numbers |-> Pop(irr.numbers, index),
                                         signs |-> Pop(irr.signs, 0)],
                                        Tail(connected_fields), own)
             ELSE PopConnectedFirstSign(irr, Tail(connected_fields), own)

\* for cfield in connected_fields: pop the number of cfield from irr_numbers
\* and irr_signs when it is another number and still there.
RECURSIVE PopConnected(_, _, _)
PopConnected(irr, connected_fields, own) ==
    IF connected_fields = <<>> THEN irr
    ELSE LET number == get_tuple_from_vector(Head(connected_fields))[1]
             index == IndexOf(irr.numbers, number)
         IN  IF number # own /\ index >= 0
             THEN PopConnected([numbers |-> Pop(irr.numbers, index),
                                signs |-> Pop(irr.signs, index)],
                               Tail(connected_fields), own)
             ELSE PopConnected(irr, Tail(connected_fields), own)

\* One pass of a reduction loop: for each number of `todo`, remove the numbers
\* connected to it.
RECURSIVE ReduceLoop(_, _, _, _, _)
ReduceLoop(lattice, ops, irr, todo, ord) ==
    IF todo = <<>> THEN irr
    ELSE LET field == get_vector_from_number(Head(todo), 1)
             connected_fields ==
                 Remove(get_connected_fields_with_operations(lattice, ops, field, ord).fields, field)
         IN  ReduceLoop(lattice, ops, PopConnected(irr, connected_fields, Head(todo)), Tail(todo), ord)

\* The reduction seeded from number 0 instead of 2 (and 3).
IrreducibleSeededFromZero(lattice, ops, n, ord) ==
    LET start == [numbers |-> [i \in 1..n |-> i - 1],
                  signs |-> SignsAfterInversionCheck(lattice, ops, n, ord)]
        final(seeded) == ReduceLoop(lattice, ops, seeded, seeded.numbers, ord)
    IN  final(ReduceLoop(lattice, ops, start, <<0>>, ord))

\* The reduction without the pass over the start numbers.
IrreducibleWithoutSeeds(lattice, ops, n, ord) ==
    LET start == [numbers |-> [i \in 1..n |-> i - 1],
                  signs |-> SignsAfterInversionCheck(lattice, ops, n, ord)]
    IN  ReduceLoop(lattice, ops, start, start.numbers, ord)

get_irreducible_numbers_and_signs(lattice, ops, n, ord) ==
    LET start == [numbers |-> [i \in 1..n |-> i - 1],
                  signs |-> SignsAfterInversionCheck(lattice, ops, n, ord)]
        start_numbers == IF n = 3 THEN <<2>> ELSE <<2, 3>>
        final(seeded) == ReduceLoop(lattice, ops, seeded, seeded.numbers, ord)
    IN  final(ReduceLoop(lattice, ops, start, start_numbers, ord))

(***************************************************************************)
(* transform_trajectory                                                    *)
(***************************************************************************)
\* An assignment in place of the deep copy: the two names are one object.
ShallowCopy(obj) == [value |-> obj, shared |-> TRUE]

\* copy.deepcopy: the copy shares nothing with the object it was made from.
\* `shared` tells whether a write to the copy also reaches the original.
deepcopy(obj) == [value |-> obj, shared |-> FALSE]

\* diff -= np.rint(diff), for one component in units of 1/4.
WrapRint(d) == d - 4 * RintDiv(d, 4)

\* The lookup with the two atoms exchanged: rotation . positions[i] +
\* translation - positions[j].
DistSqExchanged(atoms, rotation, translation, i, j) ==
    LET norm(c) == Dot(c, c)
        wrap(d) == <<d[1] - 4 * RintDiv(d[1], 4), d[2] - 4 * RintDiv(d[2], 4), d[3] - 4 * RintDiv(d[3], 4)>>
    IN  norm(MatVec(Transpose(atoms.lattice),
                    wrap(VecSub(VecAdd(MatVec(rotation, atoms.positions[i]), translation),
                                atoms.positions[j]))))

\* Row j of `diff` in the loop over atom i: rotation . positions[j] +
\* translation - positions[i], wrapped; then the square of `dist`.
DistSq(atoms, rotation, translation, i, j) ==
    LET norm(c) == Dot(c, c)
        wrap(d) == <<WrapRint(d[1]), WrapRint(d[2]), WrapRint(d[3])>>
    IN  norm(MatVec(Transpose(atoms.lattice),
                    wrap(VecSub(VecAdd(MatVec(rotation, atoms.positions[j]), translation),
                                atoms.positions[i]))))

\* np.nonzero(dist < symprec)[0]: the matching atoms, ascending.
NonZero(atoms, rotation, translation, prec, i) ==
    SelectSeq([j \in 1..Len(atoms.positions) |-> j],
              LAMBDA j : DistSq(atoms, rotation, translation, i, j) < prec)

\* j = np.nonzero(dist < symprec)[0][0]; 0 stands for the IndexError of an
\* empty match.
SourceAtom(atoms, rotation, translation, prec, i) ==
    LET found == NonZero(atoms, rotation, translation, prec, i)
    IN  IF found = <<>> THEN 0 ELSE found[1]

Last(s) == s[Len(s)]

transform_trajectory(trajectory_data, rotation, translation, atoms, prec) ==
    LET num_atoms == Len(atoms.positions)
        return(copy, new_trajectory) ==
            [error |-> "none", new_trajectory |-> new_trajectory,
             trajectory_data |-> IF copy.shared THEN new_trajectory ELSE trajectory_data]
        rotate(copy, r_cart, src) ==
            IF \E i \in 1..num_atoms : src[i] = 0
            THEN [error |-> "IndexError", new_trajectory |-> copy.value,
                  trajectory_data |-> trajectory_data]
            ELSE return(copy,
                    [copy.value EXCEPT
                        !.forces = <<[i \in 1..num_atoms |->
                                        RotateExact(r_cart, Last(copy.value.forces)[src[i]])]>>,
                        !.electronic_dipole_cartesian_axes =
                            <<RotateExact(r_cart, Last(copy.value.electronic_dipole_cartesian_axes))>>])
    IN  rotate(deepcopy(trajectory_data),
               similarity_transformation(Transpose(atoms.lattice), rotation),
               [i \in 1..num_atoms |-> SourceAtom(atoms, rotation, translation, prec, i)])

(***************************************************************************)
(* get_trajectories_from_symmetries                                        *)
(***************************************************************************)
\* d[k] = v on a Python dictionary.
Store(d, k, v) == [x \in (DOMAIN d) \cup {k} |-> IF x = k THEN v ELSE d[x]]

\* try: full_data[index_key][str(index)] = new_trajectory
\* except KeyError: full_data[index_key] = {}; then the same store.
StoreSlot(fd, number, index, new_trajectory) ==
    IF number \in DOMAIN fd
    THEN Store(fd, number, Store(fd[number], index, new_trajectory))
    ELSE Store(fd, number, Store(<<>>, index, new_trajectory))

\* for field, rotation, translation in zip(fields, rotations, translations)
RECURSIVE FieldLoop(_, _, _, _, _, _, _, _)
FieldLoop(st, atoms, prec, conn, key, s, count, m) ==
    IF m > Len(conn.fields) \/ st.error # "none" THEN st
    ELSE LET body(tr, ns) ==
                 IF tr.error # "none"
                 THEN [st EXCEPT !.error = tr.error]
                 ELSE [st EXCEPT
                         !.full_data = StoreSlot(st.full_data, ns[1],
                                                 (IF ns[2] > 0 THEN 0 ELSE 1) + count,
                                                 tr.new_trajectory),
                         !.data = Store(st.data, key, Store(st.data[key], s, tr.trajectory_data))]
         IN  FieldLoop(body(transform_trajectory(st.data[key][s], conn.rotations[m],
                                                 conn.translations[m], atoms, prec),
                            get_tuple_from_vector(conn.fields[m])),
                       atoms, prec, conn, key, s, count, m + 1)

\* for trajectory_data in subvalues: ...; count += 2
RECURSIVE SubvalueLoop(_, _, _, _, _, _)
SubvalueLoop(st, atoms, prec, conn, key, s) ==
    IF s >= Cardinality(DOMAIN st.data[key]) \/ st.error # "none" THEN st
    ELSE SubvalueLoop(FieldLoop(st, atoms, prec, conn, key, s, 2 * s, 1),
                      atoms, prec, conn, key, s + 1)

\* for key, value in data.items()
RECURSIVE KeyLoop(_, _, _, _, _, _, _)
KeyLoop(st, ops, atoms, prec, order, ord, keys) ==
    IF keys = {} \/ st.error # "none" THEN st
    ELSE LET key == CHOOSE k \in keys : \A o \in keys : k <= o
             conn == get_connected_fields_with_operations(
                         atoms.lattice, ops, get_vector_from_number(key, 1), ord)
         IN  IF Cardinality(DOMAIN st.data[key]) = order
             THEN KeyLoop(st, ops, atoms, prec, order, ord, keys \ {key})
             ELSE KeyLoop(SubvalueLoop(st, atoms, prec, conn, key, 0),
                          ops, atoms, prec, order, ord, keys \ {key})

get_trajectories_from_symmetries(ops, atoms, prec, dat, order, ord) ==
    LET copy == deepcopy(dat)
        return(st) ==
            [error |-> st.error,
             full_data |-> st.full_data,
             data |-> IF copy.shared THEN st.full_data ELSE st.data]
    IN  return(KeyLoop([full_data |-> copy.value, data |-> dat, error |-> "none"],
                       ops, atoms, prec, order, ord, DOMAIN dat))

(***************************************************************************)
(* Third-rank tensors: symmetrization and sum rule.  A tensor is a 3x3x3    *)
(* array of integers; a symmetrized tensor is an array of numerators over   *)
(* one denominator.                                                         *)
(***************************************************************************)
\* The array of shape (3, 3, 3) with the entries of f, computed once.
Tensor3(f) ==
    LET row(x, y) == <<f[x, y, 1], f[x, y, 2], f[x, y, 3]>>
        plane(x) == <<row(x, 1), row(x, 2), row(x, 3)>>
    IN  <<plane(1), plane(2), plane(3)>>

ZeroTensor == Tensor3([x \in 1..3, y \in 1..3, z \in 1..3 |-> 0])

TensorAdd(A, B) == Tensor3([x \in 1..3, y \in 1..3, z \in 1..3 |-> A[x][y][z] + B[x][y][z]])

TensorSub(A, B) == Tensor3([x \in 1..3, y \in 1..3, z \in 1..3 |-> A[x][y][z] - B[x][y][z]])

TensorScale(n, A) == Tensor3([x \in 1..3, y \in 1..3, z \in 1..3 |-> n * A[x][y][z]])

\* np.transpose(tensors, axes=[0, 2, 1, 3]) on the tensor of one atom.
TransposeFirstTwo(A) == Tensor3([x \in 1..3, y \in 1..3, z \in 1..3 |-> A[y][x][z]])

\* The three nested np.tensordot of tensor_3rd_rank_transformation, on the
\* numerator of the rotation: the result is over the cube of its denominator.
tensor_3rd_rank_transformation(rot, mat) ==
    LET outer(B) ==      \* np.tensordot(rot, B, axes=[1, 2])
            Tensor3([c \in 1..3, b \in 1..3, a \in 1..3 |->
                rot[c][1] * B[b][a][1] + rot[c][2] * B[b][a][2] + rot[c][3] * B[b][a][3]])
        middle(A) ==     \* np.tensordot(rot, A, axes=[1, 1])
            Tensor3([b \in 1..3, a \in 1..3, k \in 1..3 |->
                rot[b][1] * A[a][1][k] + rot[b][2] * A[a][2][k] + rot[b][3] * A[a][3][k]])
        inner ==         \* np.tensordot(rot, mat, axes=[1, 0])
            Tensor3([a \in 1..3, j \in 1..3, k \in 1..3 |->
                rot[a][1] * mat[1][j][k] + rot[a][2] * mat[2][j][k] + rot[a][3] * mat[3][j][k]])
    IN  outer(middle(inner))

\* The denominator shared by the Cartesian rotations of one lattice.
CartDen(lattice) == similarity_transformation(Transpose(lattice), Identity3).den

\* for sym in sym_cart: sum_tensor += tensor_3rd_rank_transformation(sym, tensor)
RECURSIVE SumTransformed(_, _, _, _, _)
SumTransformed(acc, tensor, symmetry_operations, lattice, m) ==
    IF m > Len(symmetry_operations) \/ acc.error # "none" THEN acc
    ELSE SumTransformed(
            [error |-> "none",
             sum |-> TensorAdd(acc.sum, tensor_3rd_rank_transformation(
                        similarity_transformation(Transpose(lattice), symmetry_operations[m]).num,
                        tensor))],
            tensor, symmetry_operations, lattice, m + 1)

\* symmetrize_3nd_rank_tensor: [num, den] with den = CartDen^3 * len(operations).
symmetrize_3nd_rank_tensor(tensor, symmetry_operations, lattice) ==
    [num |-> SumTransformed([error |-> "none", sum |-> ZeroTensor], tensor,
                            symmetry_operations, lattice, 1).sum,
     den |-> CartDen(lattice) * CartDen(lattice) * CartDen(lattice) * Len(symmetry_operations)]

\* for r, t in zip(rotations, translations): the accumulation of dchi_ph0_[i].
RECURSIVE OperationLoop(_, _, _, _, _, _, _, _)
OperationLoop(acc, dchi_ph0, rotations, translations, cell_, prec, i, m) ==
    IF m > Len(rotations) \/ acc.error # "none" THEN acc
    ELSE LET body(j) ==
                 IF j = 0 THEN [error |-> "IndexError", sum |-> acc.sum]
                 ELSE [error |-> "none",
                       sum |-> TensorAdd(acc.sum, tensor_3rd_rank_transformation(
                                  similarity_transformation(Transpose(cell_.lattice), rotations[m]).num,
                                  dchi_ph0[j]))]
         IN  OperationLoop(body(SourceAtom(cell_, rotations[m], translations[m], prec, i)),
                           dchi_ph0, rotations, translations, cell_, prec, i, m + 1)

\* The sum of a list of tensors.
RECURSIVE TensorSum(_, _)
TensorSum(tensors, n) ==
    IF n = 0 THEN ZeroTensor ELSE TensorAdd(TensorSum(tensors, n - 1), tensors[n])

\* sum_dchi = dchi_ph0_.sum(axis=0) / len(dchi_ph0_); dchi_ph0_ -= sum_dchi,
\* on the numerators, over len(dchi_ph0_) times their denominator.
SumRule(sums) ==
    LET subtract(total) ==
            [i \in 1..Len(sums) |-> TensorSub(TensorScale(Len(sums), sums[i]), total)]
    IN  subtract(TensorSum(sums, Len(sums)))

\* take_average_of_dph0: [error, num, den] with
\* den = CartDen^3 * len(rotations) * len(dchi_ph0).
take_average_of_dph0(dchi_ph0, rotations, translations, cell_, prec) ==
    LET return(sums) ==
            IF \E i \in 1..Len(sums) : sums[i].error # "none"
            THEN [error |-> "IndexError", num |-> <<>>, den |-> 1]
            ELSE [error |-> "none",
                  num |-> SumRule([i \in 1..Len(sums) |-> sums[i].sum]),
                  den |-> CartDen(cell_.lattice) * CartDen(cell_.lattice) * CartDen(cell_.lattice)
                            * Len(rotations) * Len(dchi_ph0)]
        each(i) == OperationLoop([error |-> "none", sum |-> ZeroTensor], dchi_ph0,
                                 rotations, translations, cell_, prec, i, 1)
    IN  return(<<>> \o [i \in 1..Len(dchi_ph0) |-> each(i)])

\* The threshold 0.1 of the symmetry-breaking warning, in the unit of the
\* tensors (one tenth).
WarningThreshold == 1

\* phonopy Symmetry(ucell, is_symmetry, symprec): the operations of the cell,
\* or the identity alone when the symmetry search is switched off; the point
\* group holds each rotation once.
Symmetry(ops, is_symmetry) ==
    LET given == IF is_symmetry THEN ops ELSE <<Op(Identity3, Zero3)>>
        firsts == SelectSeq([m \in 1..Len(given) |-> m],
                            LAMBDA m : \A n \in 1..(m - 1) : given[n].r # given[m].r)
    IN  [rotations |-> [m \in 1..Len(given) |-> given[m].r],
         translations |-> [m \in 1..Len(given) |-> given[m].t],
         pointgroup_operations |-> [m \in 1..Len(firsts) |-> given[firsts[m]].r]]

\* idx: the atoms of the unit cell kept for the primitive cell, one for each
\* set of atoms that the pure translations of the cell map onto each other.
PrimitiveIndex(ucell, ops) ==
    SelectSeq([i \in 1..Len(ucell.positions) |-> i],
              LAMBDA i : \A j \in 1..(i - 1) : \A m \in 1..Len(ops) :
                  ops[m].r = Identity3 =>
                      Mod4(VecAdd(ucell.positions[j], ops[m].t)) # Mod4(ucell.positions[i]))

\* The comparison with >= in place of >: a difference equal to the threshold
\* is reported as well.
BrokenFromThreshold(raman_susceptibility, dph0_, den) ==
    \E I \in 1..Len(dph0_) : \E k, i, j \in 1..3 :
        Abs(raman_susceptibility[I][k][i][j] * den - dph0_[I][k][i][j]) >= WarningThreshold * den

\* (abs(raman_susceptibility - dph0_) > 0.1).any()
Broken(raman_susceptibility, dph0_, den) ==
    \E I \in 1..Len(dph0_) : \E k, i, j \in 1..3 :
        Abs(raman_susceptibility[I][k][i][j] * den - dph0_[I][k][i][j]) > WarningThreshold * den

\* symmetrize_susceptibility_derivatives with primitive = None: the returned
\* dChi/dr numerators over `den`, the symmetrized Chi^2, and whether the
\* warning was issued.
symmetrize_susceptibility_derivatives(raman_susceptibility, nlo_susceptibility, ucell, ops, primitive_matrix, prec, is_symmetry) ==
    LET select(dph0_, idx) ==
            IF primitive_matrix = "None" THEN dph0_
            ELSE [n \in 1..Len(idx) |-> dph0_[idx[n]]]
        return(nlo_, den, dph0_) ==
            [error |-> "none",
             warning |-> Broken(raman_susceptibility, dph0_, den),
             dph0 |-> select(dph0_, PrimitiveIndex(ucell, ops)),
             den |-> den,
             nlo |-> nlo_]
        back(nlo_, tdph0_) ==
            IF tdph0_.error # "none"
            THEN [error |-> tdph0_.error, warning |-> FALSE, dph0 |-> <<>>, den |-> 1, nlo |-> nlo_]
            ELSE return(nlo_, tdph0_.den,
                        [I \in 1..Len(tdph0_.num) |-> TransposeFirstTwo(tdph0_.num[I])])
        average(u_sym) ==
            back(symmetrize_3nd_rank_tensor(nlo_susceptibility, u_sym.pointgroup_operations,
                                            ucell.lattice),
                 take_average_of_dph0(
                     [I \in 1..Len(raman_susceptibility) |-> TransposeFirstTwo(raman_susceptibility[I])],
                     u_sym.rotations, u_sym.translations, ucell, prec))
    IN  average(Symmetry(ops, is_symmetry))

(***************************************************************************)
(* Inputs: unit cells with their space-group operations, as phonopy gives  *)
(* them (identity first, closed under composition), and the evaluations    *)
(* the external evaluator returns.                                         *)
(***************************************************************************)
Inversion == <<<<-1, 0, 0>>, <<0, -1, 0>>, <<0, 0, -1>>>>
\* Threefold axis along [111]: x -> y -> z -> x.
C3Diag == <<<<0, 0, 1>>, <<1, 0, 0>>, <<0, 1, 0>>>>
\* Fourfold axis along z: x -> y -> -x.
C4Z == <<<<0, -1, 0>>, <<1, 0, 0>>, <<0, 0, 1>>>>
C2Z == <<<<-1, 0, 0>>, <<0, -1, 0>>, <<0, 0, 1>>>>
C2X == <<<<1, 0, 0>>, <<0, -1, 0>>, <<0, 0, -1>>>>

\* (a.r, a.t) after (b.r, b.t).
Compose(a, b) == Op(MatMul(a.r, b.r), Mod4(VecAdd(MatVec(a.r, b.t), a.t)))

RECURSIVE AppendNew(_, _, _, _)
AppendNew(seq, gens, i, k) ==
    IF k > Len(gens) THEN seq
    ELSE LET add(p) == IF Contains(seq, p) THEN seq ELSE Append(seq, p)
         IN  AppendNew(add(Compose(seq[i], gens[k])), gens, i, k + 1)

\* The group generated by gens, identity first.
RECURSIVE GroupFrom(_, _, _)
GroupFrom(seq, gens, i) ==
    IF i > Len(seq) THEN seq
    ELSE GroupFrom(AppendNew(seq, gens, i, 1), gens, i + 1)

Group(gens) == GroupFrom(<<Op(Identity3, Zero3)>>, gens, 1)

\* The fractional rotation of a Cartesian rotation: inverse of
\* similarity_transformation(lattice.T, .); exact for a rotation of the lattice.
FracOf(lattice, r_cart) ==
    LET quotient(n, d) == [i \in 1..3 |-> [j \in 1..3 |-> n[i][j] \div d]]
        frac(rot) == quotient(MatMul(Adj3(rot), MatMul(r_cart, rot)), Det3(rot))
    IN  frac(Transpose(lattice))

Cubic == Identity3
Triclinic == <<<<2, 0, 0>>, <<1, 3, 0>>, <<0, 1, 4>>>>
Tetragonal == <<<<1, 0, 0>>, <<0, 1, 0>>, <<0, 0, 2>>>>
FaceCentred == <<<<0, 1, 1>>, <<1, 0, 1>>, <<1, 1, 0>>>>
\* A simple cubic lattice turned about z by atan(4/3).
TurnedCubic == <<<<3, 4, 0>>, <<-4, 3, 0>>, <<0, 0, 5>>>>

Crystal(lattice, positions, gens) ==
    [cell |-> [lattice |-> lattice, positions |-> positions], operations |-> Group(gens)]

Crystals ==
    { Crystal(Triclinic, <<Zero3, <<1, 2, 3>>>>, <<>>),
      Crystal(Triclinic, <<<<1, 0, 0>>, <<3, 0, 0>>>>, <<Op(Inversion, Zero3)>>),
      Crystal(Cubic, <<<<1, 0, 0>>, <<0, 1, 0>>, <<0, 0, 1>>>>, <<Op(C3Diag, Zero3)>>),
      Crystal(Cubic, <<Zero3, <<2, 2, 2>>>>,
              <<Op(C3Diag, Zero3), Op(C2Z, Zero3), Op(Inversion, Zero3)>>),
      Crystal(Tetragonal, <<Zero3>>, <<Op(C4Z, Zero3)>>),
      Crystal(Tetragonal, <<<<1, 0, 0>>, <<0, 1, 0>>, <<3, 0, 0>>, <<0, 3, 0>>>>,
              <<Op(C4Z, Zero3), Op(Inversion, Zero3)>>),
      Crystal(FaceCentred, <<Zero3>>,
              <<Op(FracOf(FaceCentred, C4Z), Zero3), Op(FracOf(FaceCentred, C2X), Zero3)>>),
      Crystal(TurnedCubic, <<Zero3>>, <<Op(C2X, Zero3), Op(C4Z, Zero3)>>),
      Crystal(Cubic, <<<<1, 1, 1>>, <<3, 3, 3>>>>,
              <<Op(Identity3, <<2, 2, 2>>), Op(Inversion, Zero3)>>),
      Crystal(Cubic, <<<<1, 0, 0>>, <<2, 0, 0>>>>, <<Op(Inversion, Zero3)>>) }

\* Squares of the tolerances: 1 accepts only an exact match, 5 also an atom
\* half a lattice vector away.
Symprecs == {1, 5}

AccuracyOrders == {2 * h : h \in 1..MaxHalfOrder}

SetOrders == {2 * k + 1 : k \in 0..MaxSetOrder}

\* The external evaluator: the trajectory of the scf with the field along
\* direction `number` and strength coeff times the step.  The values are
\* multiples of the lattice determinant, so that every rotation of them is
\* an integer.
evaluate(atoms, number, coeff) ==
    LET trajectory(unit) ==
            [forces |-> <<[i \in 1..Len(atoms.positions) |-> <<unit, unit, unit>>],
                          [i \in 1..Len(atoms.positions) |->
                              Scale(unit, <<coeff + i, number + 1, 2 * i - coeff>>)]>>,
             electronic_dipole_cartesian_axes |->
                 <<Zero3, Scale(unit, <<coeff * (number + 1), 1, 3>>)>>,
             energy |-> <<-20, -(10 * number + coeff)>>,
             steps |-> <<0, 1>>]
    IN  trajectory(Abs(Det3(atoms.lattice)))

\* The evaluations the caller runs for one irreducible number: with both signs
\* the subvalues are ordered +1, -1, +2, -2, ...; with the positive sign only
\* they are +1, +2, ...
Evaluations(atoms, number, signs, order) ==
    IF signs[2]
    THEN [s \in 0..(order - 1) |->
            evaluate(atoms, number, (IF s % 2 = 0 THEN 1 ELSE -1) * ((s \div 2) + 1))]
    ELSE [s \in 0..((order \div 2) - 1) |-> evaluate(atoms, number, s + 1)]

\* Largest common offset of the raw tensors, in tenths.
MaxOffset == 2

\* Raw dChi/dr tensors [I][k][i][j], symmetric in i and j: a part that sums to
\* zero over the atoms and differs from atom to atom, plus a common offset.
RawRaman(atoms, offset) ==
    [I \in 1..Len(atoms.positions) |->
        Tensor3([k \in 1..3, i \in 1..3, j \in 1..3 |-> offset + (2 * I - Len(atoms.positions) - 1) * (k + i * j)])]

\* A raw Chi^2 tensor.
RawNlo(offset) == Tensor3([k \in 1..3, i \in 1..3, j \in 1..3 |-> offset + k + 2 * i + 3 * j])

(***************************************************************************)
(* The state machine.                                                      *)
(***************************************************************************)
NoCall == [fn |-> "none"]

\* No work chain has been created.
NoWorkChain ==
    /\ inputs = <<>>
    /\ step = "none"
    /\ ctx = <<>>
    /\ processes = <<>>
    /\ awaitables = {}
    /\ outputs = <<>>
    /\ exit_status = 0
    /\ out_of_order = FALSE
    /\ exit_message = ""

Init ==
    /\ \E c \in Crystals : cell = c.cell /\ operations = c.operations
    /\ symprec \in Symprecs
    /\ number_id \in {3, 6}
    /\ accuracy_order \in AccuracyOrders
    /\ set_order \in SetOrders
    /\ pc = "start"
    /\ irr_numbers = <<>>
    /\ irr_signs = <<>>
    /\ data = <<>>
    /\ full_data = <<>>
    /\ error = "none"
    /\ call = NoCall
    /\ NoWorkChain

\* The caller asks for the work list.
SelectDirections ==
    /\ pc = "start"
    /\ LET return(res) == /\ irr_numbers' = res.numbers
                          /\ irr_signs' = res.signs
       IN  return(get_irreducible_numbers_and_signs(cell.lattice, operations, number_id, set_order))
    /\ pc' = "selected"
    /\ UNCHANGED <<cell, operations, symprec, number_id, accuracy_order, set_order,
                   data, full_data, error, call>>
    /\ UNCHANGED workchain

\* The evaluations of one number of the work list come back.
Evaluate ==
    /\ pc = "selected"
    /\ \E i \in 1..Len(irr_numbers) :
          /\ irr_numbers[i] \notin DOMAIN data
          /\ data' = Store(data, irr_numbers[i],
                           Evaluations(cell, irr_numbers[i], irr_signs[i], accuracy_order))
    /\ UNCHANGED <<cell, operations, symprec, number_id, accuracy_order, set_order,
                   pc, irr_numbers, irr_signs, full_data, error, call>>
    /\ UNCHANGED workchain

\* All the evaluations are there: the caller expands them.
ExpandOrbit ==
    /\ pc = "selected"
    /\ \A i \in 1..Len(irr_numbers) : irr_numbers[i] \in DOMAIN data
    /\ LET return(res) ==
               /\ full_data' = IF res.error = "none" THEN res.full_data ELSE full_data
               /\ data' = res.data
               /\ error' = res.error
       IN  return(get_trajectories_from_symmetries(operations, cell, symprec, data,
                                                   accuracy_order, set_order))
    /\ pc' = "done"
    /\ UNCHANGED <<cell, operations, symprec, number_id, accuracy_order, set_order,
                   irr_numbers, irr_signs, call>>
    /\ UNCHANGED workchain

\* A single call of get_connected_fields_with_operations.
ConnectedFields ==
    /\ pc = "start"
    /\ \E number \in 0..(number_id - 1) :
          call' = [fn |-> "connected", number |-> number,
                   result |-> get_connected_fields_with_operations(
                                  cell.lattice, operations,
                                  get_vector_from_number(number, 1), set_order)]
    /\ pc' = "connected"
    /\ UNCHANGED <<cell, operations, symprec, number_id, accuracy_order, set_order,
                   irr_numbers, irr_signs, data, full_data, error>>
    /\ UNCHANGED workchain

\* A single call of transform_trajectory on one evaluation.
TransformTrajectory ==
    /\ pc = "start"
    /\ \E k \in 1..Len(operations), number \in {0, number_id - 1} :
          LET return(res) ==
                  /\ call' = [fn |-> "transform", number |-> number, k |-> k,
                              new_trajectory |-> res.new_trajectory,
                              trajectory_data |-> res.trajectory_data]
                  /\ error' = res.error
          IN  return(transform_trajectory(evaluate(cell, number, 1), operations[k].r,
                                          operations[k].t, cell, symprec))
    /\ pc' = "transformed"
    /\ UNCHANGED <<cell, operations, symprec, number_id, accuracy_order, set_order,
                   irr_numbers, irr_signs, data, full_data>>
    /\ UNCHANGED workchain

\* The operation of the group that undoes operation k.
InverseOperation(ops, k) ==
    ops[CHOOSE m \in 1..Len(ops) : Compose(ops[m], ops[k]) = Op(Identity3, Zero3)]

\* transform_trajectory with an operation, then with its inverse on the result.
RoundTrip ==
    /\ pc = "start"
    /\ \E k \in 1..Len(operations), number \in {0, number_id - 1} :
          LET return(res) ==
                  /\ call' = [fn |-> "roundtrip", number |-> number, k |-> k,
                              new_trajectory |-> res.new_trajectory]
                  /\ error' = res.error
              back(inverse, first) ==
                  IF first.error # "none" THEN first
                  ELSE transform_trajectory(first.new_trajectory, inverse.r, inverse.t,
                                            cell, symprec)
          IN  return(back(InverseOperation(operations, k),
                          transform_trajectory(evaluate(cell, number, 1), operations[k].r,
                                               operations[k].t, cell, symprec)))
    /\ pc' = "roundtrip"
    /\ UNCHANGED <<cell, operations, symprec, number_id, accuracy_order, set_order,
                   irr_numbers, irr_signs, data, full_data>>
    /\ UNCHANGED workchain

Next ==
    \/ SelectDirections
    \/ Evaluate
    \/ ExpandOrbit
    \/ ConnectedFields
    \/ TransformTrajectory
    \/ RoundTrip

Spec == Init /\ [][Next]_vars

(***************************************************************************)
(* The symmetrization of the tensors, on the same cells.                   *)
(***************************************************************************)
\* A single call of symmetrize_susceptibility_derivatives.
Symmetrize ==
    /\ pc = "start"
    /\ \E offset \in 0..MaxOffset, is_symmetry \in BOOLEAN, primitive_matrix \in {"None", "given"} :
          LET return(res) ==
                  /\ call' = [fn |-> "symmetrize", offset |-> offset, is_symmetry |-> is_symmetry,
                              primitive_matrix |-> primitive_matrix,
                              warning |-> res.warning, dph0 |-> res.dph0, den |-> res.den,
                              nlo |-> res.nlo]
                  /\ error' = res.error
          IN  return(symmetrize_susceptibility_derivatives(
                         RawRaman(cell, offset), RawNlo(offset), cell, operations,
                         primitive_matrix, symprec, is_symmetry))
    /\ pc' = "symmetrized"
    /\ UNCHANGED <<cell, operations, symprec, number_id, accuracy_order, set_order,
                   irr_numbers, irr_signs, data, full_data>>
    /\ UNCHANGED workchain

\* The inputs of the symmetrization: the cell, its operations and the tolerance.
InitSymmetrize == Init /\ number_id = 3 /\ accuracy_order = 2 /\ set_order = 1

NextSymmetrize == Symmetrize

SpecSymmetrize == InitSymmetrize /\ [][NextSymmetrize]_vars

(***************************************************************************)
(* DielectricWorkChain (workflows/dielectric/base.py).                     *)
(***************************************************************************)
\* d.pop(k, None) on a Python dictionary.
Discard(d, k) == [x \in (DOMAIN d) \ {k} |-> d[x]]

\* d.get(k, default)
Get(d, k, default) == IF k \in DOMAIN d THEN d[k] ELSE default

\* d.update(e)
Update(d, e) == [x \in (DOMAIN d) \cup (DOMAIN e) |-> IF x \in DOMAIN e THEN e[x] ELSE d[x]]

\* d.setdefault(k, {}) for its effect on d.
setdefault(d, k) == IF k \in DOMAIN d THEN d ELSE Store(d, k, <<>>)

\* 5e-4 Ry a.u., in units of 1e-4.
FieldThreshold == 5

\* The comparison of get_accuracy_from_field_intensity taken the other way at the threshold.
get_accuracy_up_to_threshold(norm) == IF norm <= FieldThreshold THEN 4 ELSE 2

get_accuracy_from_field_intensity(norm) == IF norm < FieldThreshold THEN 4 ELSE 2

\* The step 2*E/accuracy, as a rational.
get_electric_field_step(electric_field, accuracy) ==
    [num |-> 2 * electric_field, den |-> accuracy]

\* validate_accuracy without the parity test.
validate_accuracy_sign_only(value) ==
    IF value <= 0 THEN "specified accuracy is negative or not even." ELSE "None"

\* A validator returns its message, or None.
validate_accuracy(value) ==
    IF value <= 0 \/ value % 2 # 0
    THEN "specified accuracy is negative or not even."
    ELSE "None"

\* The validator of the electric_field, electric_field_scale and diagonal_scale ports.
validate_positive(value) ==
    IF ~(value > 0) THEN "specified value is not positive." ELSE "None"

\* A validator of elfield that rejects the negative values only.
validate_elfield_not_negative(elfield) ==
    IF elfield < 0 THEN "Electric field value specified is negative." ELSE "None"

\* The validator of the elfield port of FiniteElectricFieldsWorkChain.
validate_elfield(elfield) ==
    IF elfield <= 0 THEN "Electric field value specified is negative." ELSE "None"

_AVAILABLE_PROPERTIES ==
    {"ir", "born-charges", "dielectric", "nac", "bec",
     "raman", "susceptibility-derivative", "non-linear-susceptibility"}

_validate_properties(value) ==
    IF value \notin _AVAILABLE_PROPERTIES
    THEN "Got invalid or not implemented property value."
    ELSE "None"

\* validate_inputs accepting both electric_field inputs together.
validate_inputs_either(inp) ==
    IF ~("electric_field" \in DOMAIN inp \/ "electric_field_scale" \in DOMAIN inp)
    THEN "one between electric_field and electric_field_scale must be specified"
    ELSE "None"

validate_inputs(inp) ==
    IF "electric_field" \in DOMAIN inp /\ "electric_field_scale" \in DOMAIN inp
    THEN "cannot specify both electric_field inputs, only one is accepted"
    ELSE IF ~("electric_field" \in DOMAIN inp \/ "electric_field_scale" \in DOMAIN inp)
    THEN "one between electric_field and electric_field_scale must be specified"
    ELSE "None"

\* The validation of the ports and of the namespace when the process is
\* created: the set of messages, empty when the inputs are accepted.
PortErrors(inp) ==
    {m \in {IF "electric_field" \notin DOMAIN inp THEN "None"
            ELSE validate_positive(inp.electric_field),
            IF "electric_field_scale" \notin DOMAIN inp THEN "None"
            ELSE validate_positive(inp.electric_field_scale),
            _validate_properties(inp.property),
            validate_positive(inp.diagonal_scale),
            IF "accuracy" \notin DOMAIN inp THEN "None" ELSE validate_accuracy(inp.accuracy),
            validate_inputs(inp)} : m # "None"}

_DEFAULT_NBERRYCYC == 3

\* set_tot_magnetization: True when the total magnetization, in tenths, is
\* not an integer number of Bohr magnetons.
set_tot_magnetization(tot_magnetization) == tot_magnetization % 10 # 0

is_magnetic(c) == c["is_magnetic"]

\* The SYSTEM namelist of get_inputs with the occupations set but the smearing kept.
ElectricEnthalpySystemKeepingSmearing(SYSTEM) == Store(SYSTEM, "occupations", "fixed")

\* The compulsory keys of SYSTEM for the electric enthalpy (lines 242-244).
ElectricEnthalpySystem(SYSTEM) ==
    Discard(Discard(Store(SYSTEM, "occupations", "fixed"), "degauss"), "smearing")

\* get_inputs(electric_field_vector): the inputs of an electric enthalpy scf,
\* the exit code it returns instead, or the exception it raises.
get_inputs(inp, c, procs, electric_field_vector) ==
    LET withSections(parameters) ==
            setdefault(setdefault(setdefault(parameters, "CONTROL"), "SYSTEM"), "ELECTRONS")
        control(CONTROL) ==
            LET compulsory(d) == Store(Store(d, "lelfield", TRUE), "tprnfor", TRUE)
            IN  IF electric_field_vector.num = Zero3
                THEN Store(compulsory(CONTROL), "nberrycyc", 1)
                ELSE Store(compulsory(CONTROL), "nberrycyc",
                           Get(CONTROL, "nberrycyc", _DEFAULT_NBERRYCYC))
        electrons(ELECTRONS) ==
            LET field(d) == Store(d, "efield_cart", electric_field_vector)
                wfc(d) == IF electric_field_vector.num = Zero3 THEN d
                          ELSE Store(d, "startingwfc", "file")
            IN  Store(wfc(field(ELECTRONS)), "startingpot", "file")
        magnetic(SYSTEM, base_scf) ==
            Store(Discard(SYSTEM, "starting_magnetization"), "nbnd",
                  base_scf.out.number_of_bands)
        assemble(parameters, SYSTEM) ==
            [error |-> "none",
             parameters |-> Store(Store(Store(parameters,
                                "CONTROL", control(parameters["CONTROL"])),
                                "SYSTEM", SYSTEM),
                                "ELECTRONS", electrons(parameters["ELECTRONS"])),
             clean_workdir |-> IF c["clean_workdir"] THEN "False" ELSE "default"]
        build(parameters) ==
            IF ~is_magnetic(c)
            THEN assemble(parameters, ElectricEnthalpySystem(parameters["SYSTEM"]))
            ELSE IF "base_scf" \notin DOMAIN c
            THEN [error |-> "AttributeError"]
            ELSE IF set_tot_magnetization(procs[c["base_scf"].pk].out.total_magnetization)
            THEN [error |-> "ERROR_NON_INTEGER_TOT_MAGNETIZATION"]
            ELSE assemble(parameters, magnetic(ElectricEnthalpySystem(parameters["SYSTEM"]),
                                               procs[c["base_scf"].pk]))
    IN  build(withSections(inp.parameters))

\* self.submit: the new sub-process gets the next pk.
Submitted(procs, label, built, parent_folder, number, value) ==
    Append(procs, [label |-> label, parameters |-> built.parameters,
                   clean_workdir |-> built.clean_workdir, parent_folder |-> parent_folder,
                   number |-> number, value |-> value, state |-> "running", out |-> <<>>])

\* The remote folder of a sub-process, the parent_scf input, or no parent folder.
RemoteFolder(node) == [of |-> "node", pk |-> node.pk]

ParentScf == [of |-> "parent_scf", pk |-> 0]

NoFolder == [of |-> "none", pk |-> 0]

\* The value of a sub-process that is not an scf with a finite field.
NoField == [num |-> 0, den |-> 1]

\* to_context(key=node): the awaitable is put in the context at once and is
\* replaced by the node when the sub-process terminates.
to_context(c, key, pk) == Store(c, key, [pk |-> pk, resolved |-> FALSE])

\* to_context(key=append_(node)) for the key field_index_{number}: the
\* awaitable takes its place in the list at once.
append_(c, number, pk) ==
    LET lists == Get(c, "field_index_", <<>>)
    IN  Store(c, "field_index_",
              Store(lists, number,
                    Append(Get(lists, number, <<>>), [pk |-> pk, resolved |-> FALSE])))

\* The terminated node is appended to its list when it terminates instead.
resolve_awaitable_in_arrival_order(c, pk) ==
    LET node(v) == IF v.pk = pk THEN [pk |-> pk, resolved |-> TRUE] ELSE v
        moved(list) ==
            IF \E i \in 1..Len(list) : list[i].pk = pk
            THEN Append(SelectSeq(list, LAMBDA v : v.pk # pk), [pk |-> pk, resolved |-> TRUE])
            ELSE list
    IN  [k \in DOMAIN c |->
            IF k = "field_index_"
            THEN [n \in DOMAIN c[k] |-> moved(c[k][n])]
            ELSE IF k \in {"base_scf", "nscf", "null_field", "numerical_derivatives"}
            THEN node(c[k])
            ELSE c[k]]

\* The awaitable of pk is replaced, where it stands, by the terminated node.
resolve_awaitable(c, pk) ==
    LET node(v) == IF v.pk = pk THEN [pk |-> pk, resolved |-> TRUE] ELSE v
    IN  [k \in DOMAIN c |->
            IF k = "field_index_"
            THEN [n \in DOMAIN c[k] |-> [i \in 1..Len(c[k][n]) |-> node(c[k][n][i])]]
            ELSE IF k \in {"base_scf", "nscf", "null_field", "numerical_derivatives"}
            THEN node(c[k])
            ELSE c[k]]

is_finished_ok(procs, node) == procs[node.pk].state = "finished_ok"

\* The step of the outline that follows `current` (lines 130-149).
should_run_base_scf(c) == c["should_run_base_scf"]

should_estimate_electric_field(c) == c["should_estimate_electric_field"]

\* A loop that goes on until the iteration has passed the steps.
should_run_once_more(c) == c["iteration"] <= c["steps"]

should_run_electric_field_scfs(c) == ~(c["steps"] = c["iteration"])

Outline(current, c) ==
    LET loop == IF should_run_electric_field_scfs(c) THEN "run_electric_field_scfs"
                ELSE "run_numerical_derivatives"
        estimate == IF should_estimate_electric_field(c) THEN "run_nscf"
                    ELSE "run_null_field_scf"
    IN  CASE current = "setup" ->
                 IF should_run_base_scf(c) THEN "run_base_scf" ELSE estimate
          [] current = "run_base_scf" -> "inspect_base_scf"
          [] current = "inspect_base_scf" -> estimate
          [] current = "run_nscf" -> "inspect_nscf"
          [] current = "inspect_nscf" -> "estimate_electric_field"
          [] current = "estimate_electric_field" -> "run_null_field_scf"
          [] current = "run_null_field_scf" -> "inspect_null_field_scf"
          [] current = "inspect_null_field_scf" -> loop
          [] current = "run_electric_field_scfs" -> "inspect_electric_field_scfs"
          [] current = "inspect_electric_field_scfs" -> loop
          [] current = "run_numerical_derivatives" -> "results"
          [] current = "results" -> "finished"

\* The spin settings with every nspin other than 1 taken as magnetic.
SpinSettingsAnyNspin(parameters) ==
    [error |-> "none", is_magnetic |-> Get(Get(parameters, "SYSTEM", <<>>), "nspin", 1) # 1]

\* Whether the system is treated as magnetic (lines 201-216), or the
\* exception raised for the spin settings.
SpinSettings(parameters) ==
    LET SYSTEM == Get(parameters, "SYSTEM", <<>>)
        nspin == Get(SYSTEM, "nspin", 1)
    IN  IF nspin # 1
        THEN IF nspin = 2
             THEN IF "starting_magnetization" \notin DOMAIN SYSTEM
                     /\ "tot_magnetization" \notin DOMAIN SYSTEM
                  THEN [error |-> "NameError", is_magnetic |-> TRUE]
                  ELSE [error |-> "none", is_magnetic |-> TRUE]
             ELSE [error |-> "NotImplementedError", is_magnetic |-> TRUE]
        ELSE [error |-> "none", is_magnetic |-> FALSE]

\* The body of setup(): the context it leaves, or the exception it raises.
SetupContext(inp) ==
    LET c1 == [clean_workdir |-> inp.clean_workdir,
               should_run_base_scf |-> ~("parent_scf" \in DOMAIN inp)]
        c2 == IF "electric_field" \in DOMAIN inp
              THEN Store(Store(c1, "should_estimate_electric_field", FALSE),
                         "electric_field", inp.electric_field)
              ELSE Store(c1, "should_estimate_electric_field", TRUE)
        numbered(numbers, spin) ==
            IF spin.error # "none" THEN [error |-> spin.error]
            ELSE [error |-> "none",
                  ctx |-> Store(Store(c2, "numbers", numbers), "is_magnetic", spin.is_magnetic)]
    IN  IF inp.property \in {"ir", "nac", "born-charges", "bec", "dielectric"}
        THEN numbered(3, SpinSettings(inp.parameters))
        ELSE IF inp.property \in {"raman", "susceptibility-derivative",
                                  "non-linear-susceptibility"}
        THEN numbered(6, SpinSettings(inp.parameters))
        ELSE [error |-> "NotImplementedError"]

\* compute_electric_field: scaling * band_gap / denominator.
compute_electric_field(nscf_out, scale_factor) ==
    (scale_factor * nscf_out.band_gap) \div nscf_out.denominator

\* for sign in [1.0, -1.0]
Signs == <<1, -1>>

\* The norm with the iteration counted from zero.
FieldNormFromZero(inp, c, number) ==
    IF number \in {3, 4, 5}
    THEN [num |-> c["electric_field"] * c["iteration"] * inp.diagonal_scale,
          den |-> c["steps"] * 1000]
    ELSE [num |-> c["electric_field"] * c["iteration"], den |-> c["steps"]]

\* norm of run_electric_field_scfs for one number, as a rational.
FieldNorm(inp, c, number) ==
    IF number \in {3, 4, 5}
    THEN [num |-> c["electric_field"] * (c["iteration"] + 1) * inp.diagonal_scale,
          den |-> c["steps"] * 1000]
    ELSE [num |-> c["electric_field"] * (c["iteration"] + 1), den |-> c["steps"]]

\* The last element of the list instead.
LastScf(workchains) == workchains[Len(workchains)]

\* self.ctx[key][-2]
PreviousScf(workchains) == workchains[Len(workchains) - 1]

\* The two loops of run_electric_field_scfs from (number, s) on: st is
\* [error, ctx, processes], the context and the sub-processes so far.
RECURSIVE ElectricFieldLoop(_, _, _, _)
ElectricFieldLoop(inp, state, number, s) ==
    LET iterate(st) ==
            IF st.error # "none" \/ number = st.ctx["numbers"] THEN st
            ELSE IF s > Len(Signs) THEN ElectricFieldLoop(inp, st, number + 1, 1)
            ELSE LET body(norm, lists) ==
                         LET value == [num |-> Signs[s] * norm.num, den |-> norm.den]
                             electric_field_vector ==
                                 [num |-> get_vector_from_number(number, value.num),
                                  den |-> value.den]
                             parent_folder ==
                                 IF st.ctx["iteration"] = 0
                                 THEN RemoteFolder(st.ctx["null_field"])
                                 ELSE RemoteFolder(PreviousScf(lists[number]))
                             submit(built) ==
                                 IF built.error # "none"
                                 THEN [error |-> "AttributeError", ctx |-> st.ctx,
                                       processes |-> st.processes]
                                 ELSE ElectricFieldLoop(inp,
                                          [error |-> "none",
                                           ctx |-> append_(st.ctx, number, Len(st.processes) + 1),
                                           processes |-> Submitted(st.processes, "field_index_",
                                                             built, parent_folder, number, value)],
                                          number, s + 1)
                         IN  submit(get_inputs(inp, st.ctx, st.processes, electric_field_vector))
                 IN  body(FieldNorm(inp, st.ctx, number), Get(st.ctx, "field_index_", <<>>))
    IN  CHOOSE after \in {iterate(st) : st \in {state}} : TRUE

\* The outcomes of a sub-process, as far as the work chain reads them.
NumberOfBands == 8

BandGaps == {6, 10, 16}

TotalMagnetizations == {20, 25}

Outcomes(inp, procs, pk) ==
    LET ok(out) == [state |-> "finished_ok", out |-> out]
        failed == IF \A q \in 1..Len(procs) : procs[q].state # "failed"
                  THEN {[state |-> "failed", out |-> <<>>]} ELSE {}
    IN  failed \cup
        CASE procs[pk].label = "base_scf" ->
                 {ok([number_of_bands |-> NumberOfBands, total_magnetization |-> m]) :
                     m \in IF Get(Get(inp.parameters, "SYSTEM", <<>>), "nspin", 1) = 1
                           THEN {0} ELSE TotalMagnetizations}
          [] procs[pk].label = "nscf" ->
                 {ok([band_gap |-> g, denominator |-> 2]) : g \in BandGaps}
          [] procs[pk].label = "numerical_derivatives" -> {ok([tensors |-> pk])}
          [] OTHER -> {ok([output_trajectory |-> pk])}

\* How a step of the outline ends: it raised, it returned an exit code, or
\* the outline goes on with the context c.
Excepted(name) ==
    step' = "excepted" /\ error' = name /\ UNCHANGED <<exit_status, exit_message>>

\* return self.exit_codes.X, or X.format(direction=...)
ExitCode(status, direction) ==
    step' = "finished" /\ error' = error /\ exit_status' = status /\ exit_message' = direction

GoOn(c) ==
    step' = Outline(step, c) /\ error' = error /\ UNCHANGED <<exit_status, exit_message>>

symmetry == <<cell, operations, symprec, number_id, accuracy_order, set_order,
              pc, irr_numbers, irr_signs, data, full_data, call>>

\* The process is created: the inputs are validated against the spec.
Launch ==
    /\ step = "created"
    /\ step' = IF PortErrors(inputs) = {} THEN "setup" ELSE "rejected"
    /\ UNCHANGED <<inputs, ctx, processes, awaitables, outputs, exit_status, error, out_of_order,
                   exit_message, symmetry>>

setup ==
    /\ step = "setup" /\ awaitables = {}
    /\ LET return(res) ==
               IF res.error = "none" THEN ctx' = res.ctx /\ GoOn(res.ctx)
               ELSE ctx' = ctx /\ Excepted(res.error)
       IN  return(SetupContext(inputs))
    /\ UNCHANGED <<inputs, processes, awaitables, outputs, out_of_order, symmetry>>

run_base_scf ==
    /\ step = "run_base_scf" /\ awaitables = {}
    /\ LET parameters == Discard(Discard(inputs.parameters, "nberrycyc, lelfield"), "efield_cart")
       IN  processes' = Submitted(processes, "base_scf",
                                  [parameters |-> parameters, clean_workdir |-> "False"],
                                  NoFolder, -1, NoField)
    /\ ctx' = to_context(ctx, "base_scf", Len(processes) + 1)
    /\ awaitables' = {Len(processes) + 1}
    /\ GoOn(ctx)
    /\ UNCHANGED <<inputs, outputs, out_of_order, symmetry>>

inspect_base_scf ==
    /\ step = "inspect_base_scf" /\ awaitables = {}
    /\ IF ~is_finished_ok(processes, ctx["base_scf"]) THEN ExitCode(400, "") ELSE GoOn(ctx)
    /\ UNCHANGED <<inputs, ctx, processes, awaitables, outputs, out_of_order, symmetry>>

run_nscf ==
    /\ step = "run_nscf" /\ awaitables = {}
    /\ IF "base_scf" \notin DOMAIN ctx
       THEN Excepted("AttributeError") /\ UNCHANGED <<ctx, processes, awaitables>>
       ELSE IF "CONTROL" \notin DOMAIN inputs.parameters \/ "SYSTEM" \notin DOMAIN inputs.parameters
       THEN Excepted("KeyError") /\ UNCHANGED <<ctx, processes, awaitables>>
       ELSE LET outputs_ == processes[ctx["base_scf"].pk].out
                nscf(parameters) ==
                    Store(Store(Discard(Discard(parameters, "nberrycyc, lelfield"), "efield_cart"),
                                "CONTROL", Store(parameters["CONTROL"], "calculation", "nscf")),
                          "SYSTEM", Store(parameters["SYSTEM"], "nbnd",
                                          outputs_.number_of_bands + 10))
            IN  /\ processes' = Submitted(processes, "nscf",
                                          [parameters |-> nscf(inputs.parameters),
                                           clean_workdir |-> "default"],
                                          RemoteFolder(ctx["base_scf"]), -1, NoField)
                /\ ctx' = to_context(ctx, "nscf", Len(processes) + 1)
                /\ awaitables' = {Len(processes) + 1}
                /\ GoOn(ctx)
    /\ UNCHANGED <<inputs, outputs, out_of_order, symmetry>>

inspect_nscf ==
    /\ step = "inspect_nscf" /\ awaitables = {}
    /\ IF ~is_finished_ok(processes, ctx["nscf"]) THEN ExitCode(401, "") ELSE GoOn(ctx)
    /\ UNCHANGED <<inputs, ctx, processes, awaitables, outputs, out_of_order, symmetry>>

estimate_electric_field ==
    /\ step = "estimate_electric_field" /\ awaitables = {}
    /\ LET assign(value_node) ==
               /\ ctx' = Store(ctx, "electric_field", value_node)
               /\ outputs' = Store(outputs, "estimated_electric_field", value_node)
       IN  assign(compute_electric_field(processes[ctx["nscf"].pk].out,
                                         inputs.electric_field_scale))
    /\ GoOn(ctx)
    /\ UNCHANGED <<inputs, processes, awaitables, out_of_order, symmetry>>

run_null_field_scf ==
    /\ step = "run_null_field_scf" /\ awaitables = {}
    /\ LET accuracy == IF "accuracy" \in DOMAIN inputs THEN inputs.accuracy
                       ELSE get_accuracy_from_field_intensity(ctx["electric_field"])
           submit(c, built) ==
               IF built.error # "none" \/ ("parent_scf" \notin DOMAIN inputs /\ "base_scf" \notin DOMAIN c)
               THEN /\ ctx' = c
                    /\ Excepted("AttributeError")
                    /\ UNCHANGED <<processes, awaitables>>
               ELSE /\ processes' = Submitted(processes, "null_field", built,
                                              IF "parent_scf" \in DOMAIN inputs THEN ParentScf
                                              ELSE RemoteFolder(c["base_scf"]),
                                              -1, NoField)
                    /\ ctx' = to_context(c, "null_field", Len(processes) + 1)
                    /\ awaitables' = {Len(processes) + 1}
                    /\ GoOn(c)
           prepare(c) == submit(c, get_inputs(inputs, c, processes, [num |-> Zero3, den |-> 1]))
       IN  prepare(Store(Store(Store(ctx, "accuracy", accuracy),
                               "steps", accuracy \div 2), "iteration", 0))
    /\ UNCHANGED <<inputs, outputs, out_of_order, symmetry>>

\* An inspection that lets a failed null-field scf pass.
inspect_null_field_scf_unchecked ==
    /\ step = "inspect_null_field_scf" /\ awaitables = {}
    /\ GoOn(ctx)
    /\ UNCHANGED <<inputs, ctx, processes, awaitables, outputs, out_of_order, symmetry>>

inspect_null_field_scf ==
    /\ step = "inspect_null_field_scf" /\ awaitables = {}
    /\ IF ~is_finished_ok(processes, ctx["null_field"])
       THEN ExitCode(402, "null") ELSE GoOn(ctx)
    /\ UNCHANGED <<inputs, ctx, processes, awaitables, outputs, out_of_order, symmetry>>

run_electric_field_scfs ==
    /\ step = "run_electric_field_scfs" /\ awaitables = {}
    /\ \E st \in {ElectricFieldLoop(inputs,
                        [error |-> "none", ctx |-> ctx, processes |-> processes], 0, 1)} :
          /\ processes' = st.processes
          /\ awaitables' = (Len(processes) + 1)..Len(st.processes)
          /\ IF st.error # "none"
             THEN ctx' = st.ctx /\ Excepted(st.error)
             ELSE /\ ctx' = Store(st.ctx, "iteration", st.ctx["iteration"] + 1)
                  /\ GoOn(ctx)
    /\ UNCHANGED <<inputs, outputs, out_of_order, symmetry>>

\* The numbers with a sub-process of field_index_{number} that did not finish ok.
FailedNumbers(c, procs) ==
    {n \in DOMAIN c["field_index_"] :
        \E i \in 1..Len(c["field_index_"][n]) : ~is_finished_ok(procs, c["field_index_"][n][i])}

\* key[-1] of the key field_index_{number}.
LastCharacter(number) == <<"0", "1", "2", "3", "4", "5">>[number + 1]

\* The first key found by the loop over ctx.items(): the keys come in the
\* order in which they were put in the context, which is that of the numbers.
FirstFailed(c, procs) ==
    CHOOSE n \in FailedNumbers(c, procs) : \A m \in FailedNumbers(c, procs) : n <= m

inspect_electric_field_scfs ==
    /\ step = "inspect_electric_field_scfs" /\ awaitables = {}
    /\ IF FailedNumbers(ctx, processes) # {}
       THEN ExitCode(402, LastCharacter(FirstFailed(ctx, processes))) ELSE GoOn(ctx)
    /\ UNCHANGED <<inputs, ctx, processes, awaitables, outputs, out_of_order, symmetry>>

\* field_data = {str(i): wc.outputs.output_trajectory for i, wc in enumerate(workchains)}
FieldData(procs, workchains) ==
    [i \in 0..(Len(workchains) - 1) |-> procs[workchains[i + 1].pk].out.output_trajectory]

run_numerical_derivatives ==
    /\ step = "run_numerical_derivatives" /\ awaitables = {}
    /\ LET data_ == [null_field |-> processes[ctx["null_field"].pk].out.output_trajectory,
                     field_index_ |-> [n \in DOMAIN ctx["field_index_"] |->
                                          FieldData(processes, ctx["field_index_"][n])]]
           base == [data |-> data_,
                    electric_field |-> get_electric_field_step(ctx["electric_field"],
                                                               ctx["accuracy"])]
           inputs_ == IF 1 + Cardinality(DOMAIN data_.field_index_) = 7
                      THEN Store(base, "diagonal_scale", inputs.diagonal_scale)
                      ELSE base
       IN  processes' = Submitted(processes, "numerical_derivatives",
                                  [parameters |-> inputs_, clean_workdir |-> "default"],
                                  NoFolder, -1, NoField)
    /\ ctx' = to_context(ctx, "numerical_derivatives", Len(processes) + 1)
    /\ awaitables' = {Len(processes) + 1}
    /\ GoOn(ctx)
    /\ UNCHANGED <<inputs, outputs, out_of_order, symmetry>>

\* results() with the outputs exposed before the inspection.
results_exposing_first ==
    /\ step = "results" /\ awaitables = {}
    /\ outputs' = Store(outputs, "numerical_derivatives",
                        processes[ctx["numerical_derivatives"].pk].out)
    /\ IF ~is_finished_ok(processes, ctx["numerical_derivatives"])
       THEN ExitCode(404, "") ELSE GoOn(ctx)
    /\ UNCHANGED <<inputs, ctx, processes, awaitables, out_of_order, symmetry>>

results ==
    /\ step = "results" /\ awaitables = {}
    /\ IF ~is_finished_ok(processes, ctx["numerical_derivatives"])
       THEN ExitCode(404, "") /\ outputs' = outputs
       ELSE /\ outputs' = Store(outputs, "numerical_derivatives",
                                processes[ctx["numerical_derivatives"].pk].out)
            /\ GoOn(ctx)
    /\ UNCHANGED <<inputs, ctx, processes, awaitables, out_of_order, symmetry>>

\* A sub-process the work chain waits for terminates; the engine resolves
\* its awaitable in the context.
Terminate ==
    /\ \E pk \in awaitables : \E outcome \in Outcomes(inputs, processes, pk) :
          /\ processes' = [processes EXCEPT ![pk].state = outcome.state, ![pk].out = outcome.out]
          /\ awaitables' = awaitables \ {pk}
          /\ ctx' = resolve_awaitable(ctx, pk)
          /\ out_of_order' = (out_of_order \/ \E q \in awaitables : q < pk)
    /\ UNCHANGED <<inputs, step, outputs, exit_status, error, exit_message, symmetry>>

(***************************************************************************)
(* The inputs of the work chain.                                           *)
(***************************************************************************)
\* 1/sqrt(2) in thousandths, the default of central_difference.diagonal_scale.
DefaultDiagonalScale == 707

\* scf.pw.parameters of a non-magnetic insulator.
BaseParameters ==
    [CONTROL |-> [calculation |-> "scf"], SYSTEM |-> [ecutwfc |-> 30], ELECTRONS |-> <<>>]

WithSystem(keys) == Store(BaseParameters, "SYSTEM", keys)

ParameterCases ==
    {BaseParameters,
     [ELECTRONS |-> <<>>],
     Store(BaseParameters, "CONTROL", [calculation |-> "scf", nberrycyc |-> 5]),
     WithSystem([ecutwfc |-> 30, occupations |-> "smearing", degauss |-> 2, smearing |-> "mv"]),
     WithSystem([ecutwfc |-> 30, occupations |-> "tetrahedra"]),
     WithSystem([ecutwfc |-> 30, nspin |-> 1]),
     WithSystem([ecutwfc |-> 30, nspin |-> 2]),
     WithSystem([ecutwfc |-> 30, nspin |-> 2, starting_magnetization |-> 1,
                 occupations |-> "smearing", degauss |-> 2]),
     WithSystem([ecutwfc |-> 30, nspin |-> 2, tot_magnetization |-> 2]),
     WithSystem([ecutwfc |-> 30, nspin |-> 4])}

\* An input port that is left out or given one of the values.
Optional(port, values) == {<<>>} \cup {Store(<<>>, port, v) : v \in values}

\* The ports that are always given.
Required(diagonal_scale, property, parameters) ==
    [diagonal_scale |-> diagonal_scale, property |-> property, parameters |-> parameters,
     clean_workdir |-> TRUE]

\* The inputs handed to the work chain: a sweep of the validated ports, a
\* sweep of the scf parameters, a sweep of the properties.
InputCases ==
    {Update(Update(Update(Required(DefaultDiagonalScale, "dielectric", BaseParameters), e), s), a) :
        e \in Optional("electric_field", {-1, 0, 3, 5, 8}),
        s \in Optional("electric_field_scale", {0, 1}),
        a \in Optional("accuracy", -2..(2 * MaxHalfOrder))}
    \cup
    {Update(Update(Store(Required(DefaultDiagonalScale, "dielectric", par), "accuracy", 2), f), p) :
        f \in {[electric_field |-> 5], [electric_field_scale |-> 1]},
        p \in Optional("parent_scf", {"RemoteData"}),
        par \in ParameterCases}
    \cup
    {Update(Store(Required(a[1], property, BaseParameters), "electric_field", 3), a[2]) :
        a \in {<<DefaultDiagonalScale, <<>> >>, <<500, [accuracy |-> 2]>>},
        property \in {"raman", "ir", "phonon"}}
    \cup
    {Store(Required(0, "ir", BaseParameters), "electric_field", 3)}

InitDielectric ==
    /\ cell = <<>>
    /\ operations = <<>>
    /\ symprec = 0
    /\ number_id = 3
    /\ accuracy_order = 2
    /\ set_order = 1
    /\ pc = "none"
    /\ irr_numbers = <<>>
    /\ irr_signs = <<>>
    /\ data = <<>>
    /\ full_data = <<>>
    /\ error = "none"
    /\ call = NoCall
    /\ inputs \in InputCases
    /\ step = "created"
    /\ ctx = <<>>
    /\ processes = <<>>
    /\ awaitables = {}
    /\ outputs = <<>>
    /\ exit_status = 0
    /\ out_of_order = FALSE
    /\ exit_message = ""

NextDielectric ==
    \/ Launch
    \/ setup
    \/ run_base_scf
    \/ inspect_base_scf
    \/ run_nscf
    \/ inspect_nscf
    \/ estimate_electric_field
    \/ run_null_field_scf
    \/ inspect_null_field_scf
    \/ run_electric_field_scfs
    \/ inspect_electric_field_scfs
    \/ run_numerical_derivatives
    \/ results
    \/ Terminate

SpecDielectric == InitDielectric /\ [][NextDielectric]_vars

\* Inputs that reach the loop over the electric fields: three directions with
\* every order of accuracy and with the adaptive one, six directions, and a
\* field estimated from the band gap.
LoopCases ==
    {Update(Store(Required(DefaultDiagonalScale, "ir", BaseParameters), "electric_field", 3), a) :
        a \in Optional("accuracy", {2 * h : h \in 1..MaxHalfOrder})}
    \cup
    {Store(Store(Required(DefaultDiagonalScale, "raman", BaseParameters), "electric_field", 3), "accuracy", 2),
     Store(Store(Required(DefaultDiagonalScale, "dielectric", BaseParameters), "electric_field_scale", 1), "accuracy", 2)}

InitLoop ==
    /\ inputs \in LoopCases
    /\ step = "created"
    /\ ctx = <<>> /\ processes = <<>> /\ awaitables = {} /\ outputs = <<>>
    /\ exit_status = 0 /\ out_of_order = FALSE /\ exit_message = ""
    /\ error = "none" /\ call = NoCall
    /\ cell = <<>> /\ operations = <<>> /\ symprec = 0
    /\ number_id = 3 /\ accuracy_order = 2 /\ set_order = 1
    /\ pc = "none" /\ irr_numbers = <<>> /\ irr_signs = <<>>
    /\ data = <<>> /\ full_data = <<>>

\* The engine goes on running the outline and every sub-process terminates.
SpecDielectricFair == InitLoop /\ [][NextDielectric]_vars /\ WF_vars(NextDielectric)

(***************************************************************************)
(* BaseWorkChain: the validation of its inputs and the inspection of the   *)
(* supercell scfs and of the dielectric work chain.                        *)
(***************************************************************************)
MaxSupercells == 2

\* validate_inputs of workflows/base.py: the message returned, "None" when
\* the inputs are accepted.
ensamble_inputs ==
    <<"structure", "symprec", "is_symmetry", "distinguish_kinds", "primitive_matrix",
      "supercell_matrix">>

\* The validation without the requirement of a structure.
validate_base_inputs_without_structure(inp) ==
    LET given_inputs ==
            {i \in 1..Len(ensamble_inputs) :
                \/ ensamble_inputs[i] \in DOMAIN inp
                \/ ensamble_inputs[i] \in DOMAIN inp["phonon_workchain"]}
    IN  IF "preprocess_data" \in DOMAIN inp /\ given_inputs # {}
        THEN "too many inputs have been provided"
        ELSE IF given_inputs = {} /\ "preprocess_data" \notin DOMAIN inp
        THEN "at least one between preprocess_data and structure must be provided in input"
        ELSE IF "nac_parameters" \in DOMAIN inp /\ "dielectric_workchain" \in DOMAIN inp
        THEN "too many inputs for non-analytical constants"
        ELSE "None"

validate_base_inputs(inp) ==
    LET given_inputs ==
            {i \in 1..Len(ensamble_inputs) :
                \/ ensamble_inputs[i] \in DOMAIN inp
                \/ ensamble_inputs[i] \in DOMAIN inp["phonon_workchain"]}
    IN  IF "preprocess_data" \in DOMAIN inp /\ given_inputs # {}
        THEN "too many inputs have been provided"
        ELSE IF given_inputs # {} /\ 1 \notin given_inputs
        THEN "a structure data is required"
        ELSE IF given_inputs = {} /\ "preprocess_data" \notin DOMAIN inp
        THEN "at least one between preprocess_data and structure must be provided in input"
        ELSE IF "nac_parameters" \in DOMAIN inp /\ "dielectric_workchain" \in DOMAIN inp
        THEN "too many inputs for non-analytical constants"
        ELSE "None"

\* f'{self._RUN_PREFIX}_{num}' for num = 0, 1, ...
RunLabels ==
    <<"scf_supercell_0", "scf_supercell_1", "scf_supercell_2", "scf_supercell_3",
      "scf_supercell_4", "scf_supercell_5">>

\* label.startswith(self._RUN_PREFIX)
startswith_RUN_PREFIX(label) == \E n \in 1..Len(RunLabels) : RunLabels[n] = label

\* validate_tot_magnetization: True when the total magnetization, in tenths,
\* is not an integer number of Bohr magnetons.
validate_tot_magnetization(tot_magnetization) == tot_magnetization % 10 # 0

\* get_forces and get_energy of an output of a finished scf.
get_forces(output_trajectory) == [forces |-> output_trajectory]

get_energy(output_parameters) == [energy |-> output_parameters]

\* self.submit(PwBaseWorkChain or DielectricWorkChain, ...)
SubmittedRun(procs, label) == Append(procs, [label |-> label, state |-> "running", out |-> <<>>])

\* The work chain goes to the step `to`.
Goes(to) == step' = to /\ UNCHANGED <<error, exit_status, exit_message>>

\* What the steps of this work chain never touch.
idle == <<inputs, out_of_order, symmetry>>

\* The process is created: the inputs are validated.
LaunchBase ==
    /\ step = "created"
    /\ error' = validate_base_inputs(inputs)
    /\ step' = IF error' = "None" THEN "set_ctx_variables" ELSE "rejected"
    /\ UNCHANGED <<ctx, processes, awaitables, outputs, exit_status, exit_message, idle>>

set_ctx_variables ==
    /\ step = "set_ctx_variables"
    /\ LET parameters == inputs["phonon_workchain"]["scf"]
           nspin == Get(Get(parameters, "SYSTEM", <<>>), "nspin", 1)
           lda_plus_u_kind == Get(Get(parameters, "SYSTEM", <<>>), "lda_plus_u_kind", 0)
       IN  ctx' = Store(Store(ctx, "is_magnetic", nspin # 1), "plus_hubbard", lda_plus_u_kind = 2)
    /\ Goes("run_base_supercell")
    /\ UNCHANGED <<processes, awaitables, outputs, idle>>

run_base_supercell ==
    /\ step = "run_base_supercell" /\ awaitables = {}
    /\ processes' = SubmittedRun(processes, RunLabels[1])
    /\ awaitables' = {Len(processes')}
    /\ ctx' = to_context(Store(ctx, "supercell", "StructureData"), RunLabels[1], Len(processes'))
    /\ Goes("inspect_base_supercell")
    /\ UNCHANGED <<outputs, idle>>

inspect_base_supercell ==
    /\ step = "inspect_base_supercell" /\ awaitables = {}
    /\ IF ~is_finished_ok(processes, ctx[RunLabels[1]])
       THEN step' = "finished" /\ exit_status' = 400 /\ UNCHANGED <<error, exit_message>>
       ELSE Goes("run_parallel")
    /\ UNCHANGED <<ctx, processes, awaitables, outputs, idle>>

\* for key, supercell in supercells.items(): the scf of supercell `num` of
\* `count` is submitted from the state st, unless the total magnetization of
\* the base scf is not an integer.
RECURSIVE SupercellLoop(_, _, _)
SupercellLoop(state, num, count) ==
    LET iterate(st) ==
            IF num > count \/ st.returned THEN st
            ELSE IF st.ctx["is_magnetic"] /\
                    validate_tot_magnetization(
                        st.processes[st.ctx[RunLabels[1]].pk].out.total_magnetization)
            THEN [st EXCEPT !.returned = TRUE]
            ELSE SupercellLoop(
                     [returned |-> FALSE,
                      processes |-> SubmittedRun(st.processes, RunLabels[num + 1]),
                      ctx |-> to_context(st.ctx, RunLabels[num + 1], Len(st.processes) + 1)],
                     num + 1, count)
    IN  CHOOSE after \in {iterate(st) : st \in {state}} : TRUE

run_forces(c, procs, count) ==
    SupercellLoop([returned |-> FALSE, processes |-> procs, ctx |-> c], 1, count)

\* The DielectricWorkChain is submitted when its inputs are given.
run_dielectric(inp, st) ==
    IF "dielectric_workchain" \notin DOMAIN inp THEN st
    ELSE [st EXCEPT !.processes = SubmittedRun(st.processes, "dielectric_workchain"),
                    !.ctx = to_context(st.ctx, "dielectric_workchain", Len(st.processes) + 1)]

\* self.run_forces(); self.run_dielectric(): what run_forces returns is dropped.
run_parallel ==
    /\ step = "run_parallel" /\ awaitables = {}
    /\ \E count \in 1..MaxSupercells :
          \E st \in {run_dielectric(inputs, run_forces(ctx, processes, count))} :
             /\ processes' = st.processes
             /\ ctx' = st.ctx
             /\ awaitables' = (Len(processes) + 1)..Len(st.processes)
             /\ outputs' = Store(outputs, <<"supercells">>, count)
    /\ Goes("inspect_all_runs")
    /\ UNCHANGED idle

\* The runs of the context that did not finish ok, and the outputs emitted
\* for those that did.
failed_runs(c, procs) ==
    {c[label].pk : label \in {k \in DOMAIN c : startswith_RUN_PREFIX(k) /\ ~is_finished_ok(procs, c[k])}}
    \cup (IF "dielectric_workchain" \in DOMAIN c /\ ~is_finished_ok(procs, c["dielectric_workchain"])
          THEN {c["dielectric_workchain"].pk} ELSE {})

\* An inspection that returns at the first failed run it meets.
RECURSIVE EmitRunsUntilFailure(_, _, _, _)
EmitRunsUntilFailure(out, c, procs, n) ==
    IF n > Len(RunLabels) THEN out
    ELSE LET label == RunLabels[n]
             emitted(node) ==
                 Store(Store(out, <<"supercells_forces", label>>,
                             get_forces(procs[node.pk].out.output_trajectory)),
                       <<"supercells_energies", label>>,
                       get_energy(procs[node.pk].out.output_parameters))
         IN  IF label \notin DOMAIN c THEN EmitRunsUntilFailure(out, c, procs, n + 1)
             ELSE IF is_finished_ok(procs, c[label])
             THEN EmitRunsUntilFailure(emitted(c[label]), c, procs, n + 1)
             ELSE out

RECURSIVE EmitRuns(_, _, _, _)
EmitRuns(out, c, procs, n) ==
    IF n > Len(RunLabels) THEN out
    ELSE LET label == RunLabels[n]
             emitted(node) ==
                 Store(Store(out, <<"supercells_forces", label>>,
                             get_forces(procs[node.pk].out.output_trajectory)),
                       <<"supercells_energies", label>>,
                       get_energy(procs[node.pk].out.output_parameters))
         IN  IF label \in DOMAIN c /\ is_finished_ok(procs, c[label])
             THEN EmitRuns(emitted(c[label]), c, procs, n + 1)
             ELSE EmitRuns(out, c, procs, n + 1)

inspect_all_runs ==
    /\ step = "inspect_all_runs" /\ awaitables = {}
    /\ LET forces == EmitRuns(outputs, ctx, processes, 1)
       IN  outputs' =
               IF "dielectric_workchain" \in DOMAIN ctx /\
                  is_finished_ok(processes, ctx["dielectric_workchain"])
               THEN Store(forces, <<"dielectric_workchain">>,
                          processes[ctx["dielectric_workchain"].pk].out)
               ELSE forces
    /\ step' = "finished"
    /\ exit_status' = IF failed_runs(ctx, processes) # {} THEN 402 ELSE 0
    /\ UNCHANGED <<ctx, processes, awaitables, error, exit_message, idle>>

\* A sub-process of the work chain terminates, finished ok or failed.
TerminateRun ==
    /\ \E pk \in awaitables :
          \E outcome \in {[state |-> "failed", out |-> <<>>]} \cup
                         {[state |-> "finished_ok",
                           out |-> [output_trajectory |-> pk, output_parameters |-> pk,
                                    total_magnetization |-> m]] :
                             m \in IF Get(ctx, "is_magnetic", FALSE) /\
                                      processes[pk].label = RunLabels[1]
                                   THEN TotalMagnetizations ELSE {0}} :
             /\ processes' = [processes EXCEPT ![pk].state = outcome.state, ![pk].out = outcome.out]
             /\ awaitables' = awaitables \ {pk}
             /\ ctx' = [k \in DOMAIN ctx |->
                          IF (startswith_RUN_PREFIX(k) \/ k = "dielectric_workchain") /\ ctx[k].pk = pk
                          THEN [pk |-> pk, resolved |-> TRUE] ELSE ctx[k]]
    /\ UNCHANGED <<step, outputs, exit_status, error, exit_message, idle>>

\* The inputs: any of the structure inputs, of the inputs of the
\* non-analytical constants, and a magnetic or non-magnetic system.
KeysOf(names) == {[k \in given |-> "given"] : given \in SUBSET names}

BaseInputCases ==
    {Store(top, "phonon_workchain", Store(phonon, "scf", scf)) :
        top \in KeysOf({"structure", "supercell_matrix", "preprocess_data", "nac_parameters",
                        "dielectric_workchain"}),
        phonon \in KeysOf({"symprec", "is_symmetry", "distinguish_kinds", "primitive_matrix"}),
        scf \in {[SYSTEM |-> [ecutwfc |-> 30]], [SYSTEM |-> [ecutwfc |-> 30, nspin |-> 2]]}}

InitBase ==
    /\ inputs \in BaseInputCases
    /\ step = "created"
    /\ ctx = <<>> /\ processes = <<>> /\ awaitables = {} /\ outputs = <<>>
    /\ exit_status = 0 /\ out_of_order = FALSE /\ exit_message = ""
    /\ error = "none" /\ call = NoCall
    /\ cell = <<>> /\ operations = <<>> /\ symprec = 0
    /\ number_id = 3 /\ accuracy_order = 2 /\ set_order = 1
    /\ pc = "none" /\ irr_numbers = <<>> /\ irr_signs = <<>>
    /\ data = <<>> /\ full_data = <<>>

NextBase ==
    \/ LaunchBase
    \/ set_ctx_variables
    \/ run_base_supercell
    \/ inspect_base_supercell
    \/ run_parallel
    \/ inspect_all_runs
    \/ TerminateRun

SpecBase == InitBase /\ [][NextBase]_vars

(***************************************************************************)
(* IntensitiesAverageWorkChain                                             *)
(***************************************************************************)
validate_vibrational_data(value) ==
    IF ~value.has_nac_parameters
    THEN "vibrational data does not contain non-analytical parameters." ELSE "None"

\* validate_positive of intensities_average.py.
validate_positive_average(value) == IF value < 0 THEN "specified value is negative." ELSE "None"

\* The calcfunctions: kwargs['vibro_data'] and kwargs['options'] raise
\* KeyError when the key is not among the keyword arguments.
compute_ir_average(kwargs) ==
    IF "vibro_data" \notin DOMAIN kwargs \/ "options" \notin DOMAIN kwargs
    THEN [error |-> "KeyError", array |-> <<>>]
    ELSE [error |-> "none",
          array |-> [intensities |-> kwargs["options"], frequencies |-> kwargs["vibro_data"],
                     labels |-> kwargs["vibro_data"]]]

compute_raman_average(kwargs) ==
    IF "vibro_data" \notin DOMAIN kwargs \/ "options" \notin DOMAIN kwargs
    THEN [error |-> "KeyError", array |-> <<>>]
    ELSE [error |-> "none",
          array |-> [intensities_HH |-> kwargs["options"], intensities_HV |-> kwargs["options"],
                     frequencies |-> kwargs["vibro_data"], labels |-> kwargs["vibro_data"]]]

\* Keyword arguments that name the vibrational data as the calcfunctions read it.
KwargsVibroData(inp) == [vibro_data |-> inp["vibrational_data"], options |-> inp["options"]]

\* The keyword arguments of run_results.
Kwargs(inp) == [virbo |-> inp["vibrational_data"], options |-> inp["options"]]

\* The options passed on to compute_raman_average.
RamanOptions(inp, options) ==
    IF "with_nlo" \in DOMAIN options THEN options
    ELSE IF inp["vibrational_data"].has_nlo THEN Store(options, "with_nlo", TRUE)
    ELSE options

LaunchAverage ==
    /\ step = "created"
    /\ step' = IF /\ validate_vibrational_data(inputs["vibrational_data"]) = "None"
                  /\ validate_positive_average(inputs["quadrature_order"]) = "None"
               THEN "run_results" ELSE "rejected"
    /\ UNCHANGED <<ctx, processes, awaitables, outputs, exit_status, error, exit_message, idle>>

run_results ==
    /\ step = "run_results"
    /\ \E kwargs \in {Kwargs(inputs)} : \E ir_average \in {compute_ir_average(kwargs)} :
          IF ir_average.error # "none"
          THEN outputs' = outputs /\ Excepted(ir_average.error)
          ELSE IF ~inputs["vibrational_data"].has_raman_parameters
          THEN /\ outputs' = Store(outputs, "ir_averaged", ir_average.array)
               /\ step' = "finished" /\ UNCHANGED <<error, exit_status, exit_message>>
          ELSE \E raman_average \in
                    {compute_raman_average(
                         Store(kwargs, "options", RamanOptions(inputs, kwargs["options"])))} :
                  IF raman_average.error # "none"
                  THEN /\ outputs' = Store(outputs, "ir_averaged", ir_average.array)
                       /\ Excepted(raman_average.error)
                  ELSE /\ outputs' = Store(Store(outputs, "ir_averaged", ir_average.array),
                                           "raman_averaged", raman_average.array)
                       /\ step' = "finished" /\ UNCHANGED <<error, exit_status, exit_message>>
    /\ UNCHANGED <<ctx, processes, awaitables, idle>>

\* The vibrational data with or without each kind of parameters, the
\* quadrature order, and the options with or without with_nlo.
AverageInputCases ==
    {[vibrational_data |-> [has_nac_parameters |-> nac, has_raman_parameters |-> raman,
                            has_nlo |-> nlo],
      quadrature_order |-> order,
      options |-> Update([quadrature_order |-> 41], with_nlo)] :
        nac \in BOOLEAN, raman \in BOOLEAN, nlo \in BOOLEAN, order \in {-1, 0, 41},
        with_nlo \in Optional("with_nlo", BOOLEAN)}

InitAverage ==
    /\ inputs \in AverageInputCases
    /\ step = "created"
    /\ ctx = <<>> /\ processes = <<>> /\ awaitables = {} /\ outputs = <<>>
    /\ exit_status = 0 /\ out_of_order = FALSE /\ exit_message = ""
    /\ error = "none" /\ call = NoCall
    /\ cell = <<>> /\ operations = <<>> /\ symprec = 0
    /\ number_id = 3 /\ accuracy_order = 2 /\ set_order = 1
    /\ pc = "none" /\ irr_numbers = <<>> /\ irr_signs = <<>>
    /\ data = <<>> /\ full_data = <<>>

NextAverage == LaunchAverage \/ run_results

SpecAverage == InitAverage /\ [][NextAverage]_vars

(***************************************************************************)
(* elaborate_tensors and elaborate_susceptibility_derivatives              *)
(* (calculations/spectra_utils.py).                                        *)
(***************************************************************************)
\* The parameters of symmetrize_susceptibility_derivatives, and those of
\* them that have no default.
SymmetrizeParameters ==
    {"raman_susceptibility", "nlo_susceptibility", "ucell", "primitive_matrix", "primitive",
     "supercell_matrix", "symprec", "is_symmetry"}

SymmetrizeRequired == {"raman_susceptibility", "nlo_susceptibility", "ucell"}

\* The parameters of phonopy's symmetrize_borns_and_epsilon.
BornsParameters ==
    {"borns", "epsilon", "ucell", "primitive_matrix", "primitive", "supercell_matrix",
     "symprec", "is_symmetry"}

BornsRequired == {"borns", "epsilon", "ucell"}

\* A call with keyword arguments only: TypeError for a keyword that is not a
\* parameter and for a parameter without default that is not given.
CallWithKeywords(keywords, parameters, required) ==
    IF keywords \subseteq parameters /\ required \subseteq keywords THEN "none" ELSE "TypeError"

\* The keywords that name the tensors as symmetrize_susceptibility_derivatives does.
SusceptibilityKeywords ==
    {"raman_susceptibility", "nlo_susceptibility", "ucell", "primitive_matrix",
     "supercell_matrix", "is_symmetry", "symprec"}

\* The keywords of the two calls of symmetrize_susceptibility_derivatives.
TensorsKeywords ==
    {"raman_tensors", "nlo_susceptibility", "ucell", "primitive_matrix", "supercell_matrix",
     "is_symmetry", "symprec"}

\* An array that comes out of a symmetrization with the preprocess data.
Symmetrized(name, preprocess_data) == [array |-> name, preprocess |-> preprocess_data]

\* The array set returned, or the exception raised.
elaborate_tensors(preprocess_data, tensors) ==
    IF ~({"dielectric", "born_charges"} \subseteq tensors)
    THEN [error |-> "KeyError", arrays |-> <<>>]
    ELSE LET is_third == {"raman_tensors", "nlo_susceptibility"} \subseteq tensors
             borns == CallWithKeywords({"borns", "epsilon", "ucell", "primitive_matrix",
                                        "supercell_matrix", "is_symmetry", "symprec"},
                                       BornsParameters, BornsRequired)
             new_tensors == [name \in {"dielectric", "born_charges"} |->
                                Symmetrized(name, preprocess_data)]
             third == CallWithKeywords(TensorsKeywords, SymmetrizeParameters, SymmetrizeRequired)
         IN  IF borns # "none" THEN [error |-> borns, arrays |-> <<>>]
             ELSE IF ~is_third THEN [error |-> "none", arrays |-> new_tensors]
             ELSE IF third # "none" THEN [error |-> third, arrays |-> <<>>]
             ELSE [error |-> "none",
                   arrays |-> [name \in {"dielectric", "born_charges", "raman_tensors",
                                         "nlo_susceptibility"} |->
                                  Symmetrized(name, preprocess_data)]]

\* raman_tensors and nlo_susceptibility are None unless given.
elaborate_susceptibility_derivatives(preprocess_data, given) ==
    IF ~({"raman_tensors", "nlo_susceptibility"} \subseteq given)
    THEN [error |-> "AttributeError", arrays |-> <<>>]
    ELSE LET third == CallWithKeywords(TensorsKeywords, SymmetrizeParameters, SymmetrizeRequired)
         IN  IF third # "none" THEN [error |-> third, arrays |-> <<>>]
             ELSE [error |-> "none",
                   arrays |-> [name \in {"raman_tensors", "nlo_susceptibility"} |->
                                  Symmetrized(name, preprocess_data)]]

\* A call of one of the two calcfunctions.
Returned(fn, res) ==
    /\ call' = [fn |-> fn]
    /\ error' = res.error
    /\ outputs' = res.arrays
    /\ step' = IF res.error = "none" THEN "returned" ELSE "excepted"
    /\ UNCHANGED <<cell, operations, symprec, number_id, accuracy_order, set_order, pc,
                   irr_numbers, irr_signs, data, full_data>>
    /\ UNCHANGED <<inputs, ctx, processes, awaitables, exit_status, out_of_order, exit_message>>

ElaborateTensors ==
    /\ step = "created"
    /\ Returned("elaborate_tensors",
                elaborate_tensors(inputs["preprocess_data"], inputs["tensors"]))

ElaborateSusceptibilityDerivatives ==
    /\ step = "created"
    /\ Returned("elaborate_susceptibility_derivatives",
                elaborate_susceptibility_derivatives(inputs["preprocess_data"], inputs["tensors"]))

\* The preprocess data and the arrays of the tensors.
ElaborateInputCases ==
    {[preprocess_data |-> [primitive_matrix |-> primitive_matrix, is_symmetry |-> is_symmetry,
                           supercell |-> supercell],
      tensors |-> tensors] :
        primitive_matrix \in {"None", "given"}, is_symmetry \in BOOLEAN, supercell \in 1..2,
        tensors \in SUBSET {"dielectric", "born_charges", "raman_tensors", "nlo_susceptibility"}}

InitElaborate ==
    /\ inputs \in ElaborateInputCases
    /\ step = "created"
    /\ ctx = <<>> /\ processes = <<>> /\ awaitables = {} /\ outputs = <<>>
    /\ exit_status = 0 /\ out_of_order = FALSE /\ exit_message = ""
    /\ error = "none" /\ call = NoCall
    /\ cell = <<>> /\ operations = <<>> /\ symprec = 0
    /\ number_id = 3 /\ accuracy_order = 2 /\ set_order = 1
    /\ pc = "none" /\ irr_numbers = <<>> /\ irr_signs = <<>>
    /\ data = <<>> /\ full_data = <<>>

NextElaborate == ElaborateTensors \/ ElaborateSusceptibilityDerivatives

SpecElaborate == InitElaborate /\ [][NextElaborate]_vars

(***************************************************************************)
(* FiniteElectricFieldsWorkChain (workflows/finite_electric_fields.py).    *)
(* The electric field is an integer number of units.                       *)
(***************************************************************************)
validate_nberrycyc(nberrycyc) ==
    IF ~(nberrycyc > 0) THEN "nberrycyc value must be at least 1." ELSE "None"

validate_direction(direction) ==
    IF direction \notin {0, 1, 2} THEN "Direction is not a valid input." ELSE "None"

\* f'electric_field_{direction}' for the directions find_direction returns.
ElectricFieldKeys ==
    <<"electric_field_0", "electric_field_1", "electric_field_2", "electric_field_3">>

\* The keys the work chain puts in its context, each with what the tests of
\* inspect_elfield_scf and run_results read of it: whether it starts with
\* electric_field_, whether it starts with null, and its last character.
ContextKeys ==
    [elfield_card |-> [electric_field_ |-> FALSE, null |-> FALSE, last |-> "d"],
     only_one_elfield |-> [electric_field_ |-> FALSE, null |-> FALSE, last |-> "d"],
     should_run_init_scf |-> [electric_field_ |-> FALSE, null |-> FALSE, last |-> "f"],
     has_parent_scf |-> [electric_field_ |-> FALSE, null |-> FALSE, last |-> "f"],
     initial_scf |-> [electric_field_ |-> FALSE, null |-> FALSE, last |-> "f"],
     null_electric_field |-> [electric_field_ |-> FALSE, null |-> TRUE, last |-> "d"],
     electric_field_0 |-> [electric_field_ |-> TRUE, null |-> FALSE, last |-> "0"],
     electric_field_1 |-> [electric_field_ |-> TRUE, null |-> FALSE, last |-> "1"],
     electric_field_2 |-> [electric_field_ |-> TRUE, null |-> FALSE, last |-> "2"],
     electric_field_3 |-> [electric_field_ |-> TRUE, null |-> FALSE, last |-> "3"],
     numerical_derivatives |-> [electric_field_ |-> FALSE, null |-> FALSE, last |-> "s"]]

\* The keys in the order in which the work chain puts them in its context.
ContextOrder ==
    <<"elfield_card", "only_one_elfield", "should_run_init_scf", "has_parent_scf", "initial_scf",
      "null_electric_field", "electric_field_0", "electric_field_1", "electric_field_2",
      "electric_field_3", "numerical_derivatives">>

\* The context after setup.
setup_finite(inp) ==
    LET elfield_card == [i \in 1..3 |-> [j \in 1..3 |-> IF j = i THEN inp["elfield"] ELSE 0]]
        selected == IF "selected_elfield" \in DOMAIN inp
                    THEN <<elfield_card[inp["selected_elfield"] + 1]>> ELSE elfield_card
    IN  [elfield_card |-> selected,
         only_one_elfield |-> "selected_elfield" \in DOMAIN inp,
         should_run_init_scf |-> "init_scf" \in DOMAIN inp,
         has_parent_scf |-> ("init_scf" \in DOMAIN inp \/ "parent_scf" \in DOMAIN inp)]

\* A validation that keeps the initial scf when a parent_scf is given too.
validate_inputs_keeping_init_scf(inp, c) == c

validate_inputs_finite(inp, c) ==
    IF "init_scf" \in DOMAIN inp /\ "parent_scf" \in DOMAIN inp
    THEN Store(c, "should_run_init_scf", FALSE) ELSE c

should_run_init_scf(c) == c["should_run_init_scf"]

\* The inputs of one scf in an electric field: what is set in the parameters
\* and the parent folder, or the exception raised.
get_inputs_finite(inp, c, elfield_array) ==
    LET nberrycyc == IF elfield_array = <<0, 0, 0>> THEN 1 ELSE inp["nberrycyc"]
        built(startingpot, parent_folder) ==
            [error |-> "none", lelfield |-> TRUE, efield_cart |-> elfield_array,
             nberrycyc |-> nberrycyc, startingpot |-> startingpot,
             parent_folder |-> parent_folder]
    IN  IF ~c["has_parent_scf"] THEN built("default", NoFolder)
        ELSE IF "parent_scf" \in DOMAIN inp THEN built("file", ParentScf)
        ELSE IF "initial_scf" \notin DOMAIN c
        THEN [error |-> "AttributeError", lelfield |-> TRUE, efield_cart |-> elfield_array,
              nberrycyc |-> nberrycyc, startingpot |-> "file", parent_folder |-> NoFolder]
        ELSE built("file", RemoteFolder(c["initial_scf"]))

\* The index of the first non-zero value of the vector, and whether there is
\* one: the IndexError past the end of the vector ends the search.
RECURSIVE find_direction_from(_, _)
find_direction_from(vector, index) ==
    IF index + 1 > Len(vector) THEN <<index, FALSE>>
    ELSE IF vector[index + 1] # 0 THEN <<index, TRUE>>
    ELSE find_direction_from(vector, index + 1)

find_direction(vector) == find_direction_from(vector, 0)

\* self.submit of a PwBaseWorkChain or of the SecondOrderDerivativesWorkChain.
SubmittedScf(procs, label, built, trajectories) ==
    Append(procs, [label |-> label, efield_cart |-> built.efield_cart,
                   nberrycyc |-> built.nberrycyc, startingpot |-> built.startingpot,
                   parent_folder |-> built.parent_folder, data |-> trajectories,
                   state |-> "running", out |-> <<>>])

NoInputs ==
    [error |-> "none", lelfield |-> FALSE, efield_cart |-> <<>>, nberrycyc |-> 0,
     startingpot |-> "default", parent_folder |-> NoFolder]

\* for card in self.ctx.elfield_card, from the card n on.
RECURSIVE CardLoop(_, _, _)
CardLoop(inp, state, n) ==
    LET iterate(st) ==
            IF st.error # "none" \/ n > Len(st.ctx["elfield_card"]) THEN st
            ELSE LET card == st.ctx["elfield_card"][n]
                     direction == find_direction(card)[1]
                     key == ElectricFieldKeys[direction + 1]
                     submit(built) ==
                         IF built.error # "none" THEN [st EXCEPT !.error = built.error]
                         ELSE CardLoop(inp,
                                  [error |-> "none",
                                   processes |-> SubmittedScf(st.processes, key, built, <<>>),
                                   ctx |-> to_context(st.ctx, key, Len(st.processes) + 1)],
                                  n + 1)
                 IN  submit(get_inputs_finite(inp, st.ctx, card))
    IN  CHOOSE after \in {iterate(st) : st \in {state}} : TRUE

\* The first key of the context, in its order, that starts with
\* electric_field_ and whose scf did not finish ok; 0 when there is none.
RECURSIVE FirstFailedKey(_, _, _)
FirstFailedKey(c, procs, n) ==
    IF n > Len(ContextOrder) THEN 0
    ELSE IF /\ ContextOrder[n] \in DOMAIN c
            /\ ContextKeys[ContextOrder[n]].electric_field_
            /\ ~is_finished_ok(procs, c[ContextOrder[n]])
    THEN n
    ELSE FirstFailedKey(c, procs, n + 1)

\* data of run_results: the output trajectory of every key that starts with
\* null or ends with 0, 1 or 2.
ResultsData(c, procs) ==
    [label \in {k \in DOMAIN c : ContextKeys[k].null \/ ContextKeys[k].last \in {"0", "1", "2"}} |->
        procs[c[label].pk].out.output_trajectory]

LaunchFinite ==
    /\ step = "created"
    /\ step' = IF /\ validate_elfield(inputs["elfield"]) = "None"
                  /\ validate_nberrycyc(inputs["nberrycyc"]) = "None"
                  /\ "selected_elfield" \in DOMAIN inputs
                        => validate_direction(inputs["selected_elfield"]) = "None"
               THEN "setup" ELSE "rejected"
    /\ UNCHANGED <<ctx, processes, awaitables, outputs, exit_status, error, exit_message, idle>>

SetupFinite ==
    /\ step = "setup"
    /\ ctx' = setup_finite(inputs)
    /\ Goes("validate_inputs")
    /\ UNCHANGED <<processes, awaitables, outputs, idle>>

ValidateInputsFinite ==
    /\ step = "validate_inputs"
    /\ ctx' = validate_inputs_finite(inputs, ctx)
    /\ Goes(IF should_run_init_scf(ctx') THEN "run_init_scf" ELSE "run_elfield_scf")
    /\ UNCHANGED <<processes, awaitables, outputs, idle>>

run_init_scf ==
    /\ step = "run_init_scf" /\ awaitables = {}
    /\ processes' = SubmittedScf(processes, "initial_scf", NoInputs, <<>>)
    /\ awaitables' = {Len(processes')}
    /\ ctx' = to_context(ctx, "initial_scf", Len(processes'))
    /\ Goes("inspect_init_scf")
    /\ UNCHANGED <<outputs, idle>>

inspect_init_scf ==
    /\ step = "inspect_init_scf" /\ awaitables = {}
    /\ IF ~is_finished_ok(processes, ctx["initial_scf"])
       THEN ExitCode(401, "") ELSE Goes("run_elfield_scf")
    /\ UNCHANGED <<ctx, processes, awaitables, outputs, idle>>

run_elfield_scf ==
    /\ step = "run_elfield_scf" /\ awaitables = {}
    /\ \E null \in {get_inputs_finite(inputs, ctx, <<0, 0, 0>>)} :
          IF null.error # "none"
          THEN Excepted(null.error) /\ UNCHANGED <<ctx, processes, awaitables>>
          ELSE \E st \in {CardLoop(inputs,
                              [error |-> "none",
                               processes |-> SubmittedScf(processes, "null_electric_field", null, <<>>),
                               ctx |-> to_context(ctx, "null_electric_field", Len(processes) + 1)],
                              1)} :
                  /\ processes' = st.processes
                  /\ ctx' = st.ctx
                  /\ awaitables' = (Len(processes) + 1)..Len(st.processes)
                  /\ IF st.error # "none" THEN Excepted(st.error)
                     ELSE Goes("inspect_elfield_scf")
    /\ UNCHANGED <<outputs, idle>>

inspect_elfield_scf ==
    /\ step = "inspect_elfield_scf" /\ awaitables = {}
    /\ IF ~is_finished_ok(processes, ctx["null_electric_field"]) THEN ExitCode(402, "null")
       ELSE \E n \in {FirstFailedKey(ctx, processes, 1)} :
               IF n # 0 THEN ExitCode(402, ContextKeys[ContextOrder[n]].last)
               ELSE Goes("run_results")
    /\ UNCHANGED <<ctx, processes, awaitables, outputs, idle>>

RunResultsFinite ==
    /\ step = "run_results" /\ awaitables = {}
    /\ processes' = SubmittedScf(processes, "numerical_derivatives", NoInputs,
                                 ResultsData(ctx, processes))
    /\ awaitables' = {Len(processes')}
    /\ ctx' = to_context(ctx, "numerical_derivatives", Len(processes'))
    /\ Goes("results")
    /\ UNCHANGED <<outputs, idle>>

ResultsFinite ==
    /\ step = "results" /\ awaitables = {}
    /\ IF ~is_finished_ok(processes, ctx["numerical_derivatives"])
       THEN ExitCode(404, "") /\ outputs' = outputs
       ELSE /\ outputs' = processes[ctx["numerical_derivatives"].pk].out
            /\ step' = "finished" /\ UNCHANGED <<error, exit_status, exit_message>>
    /\ UNCHANGED <<ctx, processes, awaitables, idle>>

\* A sub-process terminates, finished ok or failed: its awaitable in the
\* context, if it is still there, is replaced by the node.
TerminateFinite ==
    /\ \E pk \in awaitables :
          \E outcome \in {[state |-> "failed", out |-> <<>>],
                          [state |-> "finished_ok",
                           out |-> [output_trajectory |-> pk, output_parameters |-> pk]]} :
             /\ processes' = [processes EXCEPT ![pk].state = outcome.state, ![pk].out = outcome.out]
             /\ awaitables' = awaitables \ {pk}
             /\ ctx' = [k \in DOMAIN ctx |->
                          IF k \in {"initial_scf", "null_electric_field", "numerical_derivatives"} \cup
                                   Range(ElectricFieldKeys) /\ ctx[k].pk = pk
                          THEN [pk |-> pk, resolved |-> TRUE] ELSE ctx[k]]
    /\ UNCHANGED <<step, outputs, exit_status, error, exit_message, idle>>

\* The inputs: the electric field and nberrycyc around their limits, any
\* selected direction, and init_scf and parent_scf given or not.
FiniteInputCases ==
    {Update(Update(Update([elfield |-> elfield, nberrycyc |-> nberrycyc], selected), init), parent) :
        elfield \in {-1, 0, 1, 2}, nberrycyc \in {0, 1, 3},
        selected \in Optional("selected_elfield", {-1, 0, 1, 2, 3}),
        init \in Optional("init_scf", {"PwBaseWorkChain"}),
        parent \in Optional("parent_scf", {"RemoteData"})}

InitFinite ==
    /\ inputs \in FiniteInputCases
    /\ step = "created"
    /\ ctx = <<>> /\ processes = <<>> /\ awaitables = {} /\ outputs = <<>>
    /\ exit_status = 0 /\ out_of_order = FALSE /\ exit_message = ""
    /\ error = "none" /\ call = NoCall
    /\ cell = <<>> /\ operations = <<>> /\ symprec = 0
    /\ number_id = 3 /\ accuracy_order = 2 /\ set_order = 1
    /\ pc = "none" /\ irr_numbers = <<>> /\ irr_signs = <<>>
    /\ data = <<>> /\ full_data = <<>>

NextFinite ==
    \/ LaunchFinite
    \/ SetupFinite
    \/ ValidateInputsFinite
    \/ run_init_scf
    \/ inspect_init_scf
    \/ run_elfield_scf
    \/ inspect_elfield_scf
    \/ RunResultsFinite
    \/ ResultsFinite
    \/ TerminateFinite

SpecFinite == InitFinite /\ [][NextFinite]_vars

(***************************************************************************)
(* compute_raman_susceptibility_tensors and compute_polarization_vectors   *)
(* (calculations/spectra_utils.py). An array holds one rational number for *)
(* each atom, the component of its tensor that the mode picks.             *)
(***************************************************************************)
MaxCalls == 2

QAdd(a, b) == [num |-> a.num * b.den + b.num * a.den, den |-> a.den * b.den]

QSub(a, b) == [num |-> a.num * b.den - b.num * a.den, den |-> a.den * b.den]

QMul(a, b) == [num |-> a.num * b.num, den |-> a.den * b.den]

QEq(a, b) == a.num * b.den = b.num * a.den

QInt(n) == [num |-> n, den |-> 1]

\* array.sum(axis=0) / len(array): the sum over the atomic index, from atom n on.
RECURSIVE SumFrom(_, _)
SumFrom(array, n) ==
    IF n > Len(array) THEN QInt(0) ELSE QAdd(array[n], SumFrom(array, n + 1))

sum_rule_correction(array) ==
    LET total(s) == [num |-> s.num, den |-> s.den * Len(array)]
    IN  total(SumFrom(array, 1))

\* array -= sum_rule_correction, array *= volume
Corrected(array) ==
    LET subtract(correction) == [I \in 1..Len(array) |-> QSub(array[I], correction)]
    IN  subtract(sum_rule_correction(array))

Scaled(array, volume) == [I \in 1..Len(array) |-> QMul(array[I], QInt(volume))]

\* np.tensordot(neigvs, array, ...): the contraction over the atoms for the one mode.
RECURSIVE tensordot(_, _, _)
tensordot(neigvs, array, n) ==
    IF n > Len(array) THEN QInt(0)
    ELSE QAdd(QMul(QInt(neigvs[n]), array[n]), tensordot(neigvs, array, n + 1))

\* The arrays returned when there is no active mode.
NoModes == [empty |-> TRUE, value |-> QInt(0), sqrt_volume |-> 1]

\* compute_polarization_vectors with the correction applied when sum_rules is True.
polarization_with_sum_rules(phonopy_instance, sum_rules) ==
    LET borns == IF sum_rules THEN Corrected(phonopy_instance.born) ELSE phonopy_instance.born
    IN  [born |-> borns, raman_tensors |-> <<>>,
         result |-> IF phonopy_instance.neigvs = <<>> THEN NoModes
                    ELSE [empty |-> FALSE, sqrt_volume |-> 1,
                          value |-> tensordot(phonopy_instance.neigvs, borns, 1)]]

\* The Born charges of the phonopy instance after the call, and what is returned.
compute_polarization_vectors(phonopy_instance, sum_rules) ==
    LET borns == IF ~sum_rules THEN Corrected(phonopy_instance.born) ELSE phonopy_instance.born
    IN  [born |-> borns, raman_tensors |-> <<>>,
         result |-> IF phonopy_instance.neigvs = <<>> THEN NoModes
                    ELSE [empty |-> FALSE, sqrt_volume |-> 1,
                          value |-> tensordot(phonopy_instance.neigvs, borns, 1)]]

\* The caller's raman_tensors after the call, and what is returned; the Born
\* charges are read only.
compute_raman_susceptibility_tensors(phonopy_instance, raman_tensors, nlo_susceptibility, q_direction, sum_rules) ==
    LET volume == phonopy_instance.volume
        scaled == Scaled(raman_tensors, volume)
        dph0 == IF sum_rules THEN Corrected(scaled) ELSE scaled
        contraction == tensordot(phonopy_instance.neigvs, dph0, 1)
        dielectric_term == phonopy_instance.dielectric * q_direction * q_direction
        borns_term ==
            tensordot(phonopy_instance.neigvs,
                      Scaled(phonopy_instance.born, q_direction), 1)
        nlo_correction ==
            QMul([num |-> -1, den |-> dielectric_term],
                 QMul(borns_term, QInt(nlo_susceptibility * q_direction)))
    IN  [born |-> phonopy_instance.born, raman_tensors |-> dph0,
         result |-> IF phonopy_instance.neigvs = <<>> THEN NoModes
                    ELSE [empty |-> FALSE, sqrt_volume |-> volume,
                          value |-> IF nlo_susceptibility # 0 /\ q_direction # 0
                                    THEN QAdd(contraction, nlo_correction)
                                    ELSE contraction]]

\* The record of a call: the function, its sum_rules, the arrays it was
\* given and what it returned.
Called(fn, sum_rules, res) ==
    /\ outputs' = Append(outputs, [fn |-> fn, sum_rules |-> sum_rules,
                                   born |-> inputs.phonopy_instance.born,
                                   raman_tensors |-> inputs.raman_tensors,
                                   result |-> res.result])
    /\ inputs' = [inputs EXCEPT !.phonopy_instance.born = res.born,
                                !.raman_tensors = IF fn = "compute_raman_susceptibility_tensors"
                                                  THEN res.raman_tensors ELSE @]
    /\ UNCHANGED <<ctx, processes, awaitables, step, exit_status, error, exit_message,
                   out_of_order, symmetry>>

ComputeRamanSusceptibilityTensors ==
    /\ step = "spectra" /\ Len(outputs) < MaxCalls
    /\ \E sum_rules \in BOOLEAN :
          Called("compute_raman_susceptibility_tensors", sum_rules,
                 compute_raman_susceptibility_tensors(
                     inputs.phonopy_instance, inputs.raman_tensors, inputs.nlo_susceptibility,
                     inputs.q_direction, sum_rules))

ComputePolarizationVectors ==
    /\ step = "spectra" /\ Len(outputs) < MaxCalls
    /\ \E sum_rules \in BOOLEAN :
          Called("compute_polarization_vectors", sum_rules,
                 compute_polarization_vectors(inputs.phonopy_instance, sum_rules))

\* The arrays of two atoms, the unit cell volume, the mode or no mode, the
\* non-linear susceptibility (0 for None) and the direction q.
SpectraInputCases ==
    {[phonopy_instance |-> [born |-> <<QInt(b[1]), QInt(b[2])>>, volume |-> volume,
                            dielectric |-> 2, neigvs |-> neigvs],
      raman_tensors |-> <<QInt(r[1]), QInt(r[2])>>,
      nlo_susceptibility |-> nlo, q_direction |-> q] :
        b \in {<<1, -1>>, <<3, 1>>}, r \in {<<2, -2>>, <<1, 3>>, <<0, 0>>},
        volume \in 1..2, neigvs \in {<<>>, <<1, -1>>, <<1, 1>>},
        nlo \in 0..1, q \in 0..1}

InitSpectra ==
    /\ inputs \in SpectraInputCases
    /\ ctx = inputs
    /\ step = "spectra"
    /\ processes = <<>> /\ awaitables = {} /\ outputs = <<>>
    /\ exit_status = 0 /\ out_of_order = FALSE /\ exit_message = ""
    /\ error = "none" /\ call = NoCall
    /\ cell = <<>> /\ operations = <<>> /\ symprec = 0
    /\ number_id = 3 /\ accuracy_order = 2 /\ set_order = 1
    /\ pc = "none" /\ irr_numbers = <<>> /\ irr_signs = <<>>
    /\ data = <<>> /\ full_data = <<>>

NextSpectra == ComputeRamanSusceptibilityTensors \/ ComputePolarizationVectors

SpecSpectra == InitSpectra /\ [][NextSpectra]_vars

(***************************************************************************)
(* Vocabulary of the properties.                                           *)
(***************************************************************************)
Selected == pc \in {"selected", "done"}

\* The Cartesian rotation of operation k, exact.
CartOf(k) == similarity_transformation(Transpose(cell.lattice), operations[k].r)

\* Operation k turns vector v exactly into vector w.
Maps(k, v, w) == MatVec(CartOf(k).num, v) = Scale(CartOf(k).den, w)

\* The Cartesian rotation of operation k is the integer matrix M.
IsRotation(k, M) == \A i \in 1..3 : CartOf(k).num[i] = Scale(CartOf(k).den, M[i])

\* The rounded image of direction `number` under operation k.
Image(number, k) == FieldCart(cell.lattice, operations, get_vector_from_number(number, 1), k)

Matched(v) == \E m \in 1..12 : not_discarded[m] = v

\* The numbers in the orbit of `number`, as get_connected_fields_with_operations gives it.
OrbitNumbers(number) ==
    {get_tuple_from_vector(f)[1] :
        f \in Range(get_connected_fields_with_operations(
                        cell.lattice, operations, get_vector_from_number(number, 1), set_order).fields)}

IdentityOnly == operations = <<Op(Identity3, Zero3)>>

\* A cubic group: a threefold axis that permutes x, y, z, and the inversion.
CubicWithInversion ==
    /\ \E k \in 1..Len(operations) : IsRotation(k, C3Diag)
    /\ \E k \in 1..Len(operations) : IsRotation(k, Inversion)

\* C1: every direction left out of the returned numbers lies in the orbit of a
\* returned number, and every sign marked as not required is reached from the
\* positive sign of its number by an operation of the group.
C1_OmittedReconstructible ==
    Selected =>
        /\ \A d \in 0..(number_id - 1) :
              d \notin Range(irr_numbers) =>
                  \E i \in 1..Len(irr_numbers) : d \in OrbitNumbers(irr_numbers[i])
        /\ \A i \in 1..Len(irr_numbers) :
              ~irr_signs[i][2] =>
                  \E k \in 1..Len(operations) :
                      Maps(k, get_vector_from_number(irr_numbers[i], 1),
                              get_vector_from_number(irr_numbers[i], -1))

\* C2: with the identity as only operation, all the directions 0..N-1 are
\* returned, each with both signs required: 2 N evaluations, 12 for N = 6.
C2_IdentityNoReduction ==
    (Selected /\ IdentityOnly) =>
        /\ irr_numbers = [i \in 1..number_id |-> i - 1]
        /\ irr_signs = [i \in 1..number_id |-> <<TRUE, TRUE>>]
        /\ Cardinality({<<i, b>> \in (1..Len(irr_signs)) \X {1, 2} : irr_signs[i][b]}) = 2 * number_id

C2_Witness == pc = "selected" /\ IdentityOnly /\ number_id = 6 /\ Len(irr_numbers) = 6

\* C3 as stated: for N = 3 and a cubic group with inversion the work list is
\* direction 0 with the positive sign only.
C3_WorkListIsDirection0 ==
    (Selected /\ CubicWithInversion /\ number_id = 3) =>
        (irr_numbers = <<0>> /\ irr_signs = <<<<TRUE, FALSE>>>>)

\* The slot of full_data that holds the evaluation of sign sg at step s + 1.
Slot(s, sg) == 2 * s + (IF sg > 0 THEN 0 ELSE 1)

\* C3 amended: for N = 3 and a cubic group with inversion the work list is
\* direction 2 with the positive sign only, and the expansion rebuilds both
\* signs of directions 0, 1 and 2 at every step from the evaluations of +2.
C3_CubicFromDirection2 ==
    (CubicWithInversion /\ number_id = 3) =>
        /\ Selected => (irr_numbers = <<2>> /\ irr_signs = <<<<TRUE, FALSE>>>>)
        /\ pc = "done" =>
              /\ error = "none"
              /\ DOMAIN data = {2}
              /\ DOMAIN data[2] = 0..((accuracy_order \div 2) - 1)
              /\ DOMAIN full_data = {0, 1, 2}
              /\ \A n \in 0..2 : DOMAIN full_data[n] = 0..(accuracy_order - 1)
              /\ \A n \in 0..2, s \in 0..((accuracy_order \div 2) - 1), sg \in {1, -1} :
                    \E k \in 1..Len(operations) :
                        /\ Maps(k, get_vector_from_number(2, 1), get_vector_from_number(n, sg))
                        /\ full_data[n][Slot(s, sg)] =
                              transform_trajectory(evaluate(cell, 2, s + 1), operations[k].r,
                                                   operations[k].t, cell, symprec).new_trajectory

C3_Witness ==
    /\ pc = "done" /\ CubicWithInversion /\ number_id = 3 /\ accuracy_order = 4
    /\ DOMAIN full_data = {0, 1, 2}

\* C4: the expansion either returns a set with, for every direction 0..N-1,
\* one entry for each of the accuracy_order slots, or it reports an error.
C4_CompleteOrError ==
    pc = "done" =>
        \/ error # "none"
        \/ /\ DOMAIN full_data = 0..(number_id - 1)
           /\ \A n \in 0..(number_id - 1) : DOMAIN full_data[n] = 0..(accuracy_order - 1)

\* C5: the positive sign of every returned direction is required, and the
\* negative sign is not required exactly when an operation of the group turns
\* the direction into its negative.
C5_SignReduction ==
    Selected =>
        /\ Len(irr_signs) = Len(irr_numbers)
        /\ \A i \in 1..Len(irr_numbers) :
              /\ irr_signs[i][1]
              /\ ~irr_signs[i][2] <=>
                    \E k \in 1..Len(operations) :
                        Maps(k, get_vector_from_number(irr_numbers[i], 1),
                                get_vector_from_number(irr_numbers[i], -1))

C5_Witness ==
    /\ pc = "selected"
    /\ \E i, j \in 1..Len(irr_numbers) : irr_signs[i][2] /\ ~irr_signs[j][2]

\* Some operation turns the direction of the last call into a vector that is
\* neither a canonical direction nor the negative of one.
SomeUnmatched == \E k \in 1..Len(operations) : ~Matched(Image(call.number, k))

C7_AmbiguousReported ==
    pc = "transformed" =>
        ((\E i \in 1..Len(cell.positions) :
             Len(NonZero(cell, operations[call.k].r, operations[call.k].t, symprec, i)) # 1)
         => error # "none")

\* The first operation, in the listed order, that gives the rounded vector v.
FirstOperation(number, v) ==
    CHOOSE k \in 1..Len(operations) :
        Image(number, k) = v /\ \A j \in 1..(k - 1) : Image(number, j) # v

\* C8: every reachable canonical signed direction is returned exactly once,
\* with the first operation in the listed order that gives it, whatever the
\* iteration order of the set; and so the expansion gives the same completed
\* set for every iteration order.
C8_FirstOperationWins ==
    /\ pc = "connected" =>
          LET res == call.result
          IN  /\ \A a, b \in 1..Len(res.fields) : res.fields[a] = res.fields[b] => a = b
              /\ \A m \in 1..Len(res.fields) :
                    LET k == FirstOperation(call.number, Scale(100, res.fields[m]))
                    IN  /\ res.rotations[m] = operations[k].r
                        /\ res.translations[m] = operations[k].t
              /\ \A o \in SetOrders :
                    get_connected_fields_with_operations(
                        cell.lattice, operations, get_vector_from_number(call.number, 1), o) = res
    /\ (pc = "done" /\ error = "none") =>
          \A o \in SetOrders :
              get_trajectories_from_symmetries(operations, cell, symprec, data,
                                               accuracy_order, o).full_data = full_data

C8_Witness ==
    /\ pc = "connected"
    /\ Len(call.result.fields) >= 2
    /\ \E j, k \in 1..Len(operations) :
          j # k /\ Image(call.number, j) = Image(call.number, k) /\ Matched(Image(call.number, k))
    /\ SomeUnmatched

\* A derived trajectory differs from its source in forces and dipole only.
OnlyForcesAndDipoleDiffer(new, old) ==
    [new EXCEPT !.forces = old.forces,
                !.electronic_dipole_cartesian_axes = old.electronic_dipole_cartesian_axes] = old

\* C9: transform_trajectory and get_trajectories_from_symmetries leave the
\* caller's trajectory and dictionary as they were, and a derived trajectory
\* differs from its source in forces and dipole only: energy and the other
\* arrays are carried over.
C9_InputsUntouched ==
    /\ pc = "transformed" =>
          /\ call.trajectory_data = evaluate(cell, call.number, 1)
          /\ OnlyForcesAndDipoleDiffer(call.new_trajectory, evaluate(cell, call.number, 1))
    /\ pc = "done" =>
          /\ DOMAIN data = Range(irr_numbers)
          /\ \A i \in 1..Len(irr_numbers) :
                data[irr_numbers[i]] =
                    Evaluations(cell, irr_numbers[i], irr_signs[i], accuracy_order)
          /\ \A n \in DOMAIN full_data : \A x \in DOMAIN full_data[n] :
                \E key \in DOMAIN data :
                    /\ n \in OrbitNumbers(key)
                    /\ \E s \in DOMAIN data[key] :
                          OnlyForcesAndDipoleDiffer(full_data[n][x], data[key][s])

C9_Witness ==
    /\ pc = "done" /\ error = "none"
    /\ \E n \in DOMAIN full_data : n \notin DOMAIN data
    /\ \E n \in DOMAIN data : full_data[n] # data[n]

\* Atom j goes exactly to the place of atom i under operation k.
GoesTo(k, j, i) ==
    Mod4(VecAdd(MatVec(operations[k].r, cell.positions[j]), operations[k].t)) = Mod4(cell.positions[i])

\* Operation k is consistent with the atom set: every atom is the image of an
\* atom, and the lookup finds exactly one atom within the tolerance.
Consistent(k) ==
    \A i \in 1..Len(cell.positions) :
        /\ \E j \in 1..Len(cell.positions) : GoesTo(k, j, i)
        /\ Len(NonZero(cell, operations[k].r, operations[k].t, symprec, i)) = 1

\* C10: for an operation consistent with the atom set, atom i gets the rotated
\* force of the atom j that the operation sends to the place of i, the source
\* atoms are a permutation of the atoms, and the dipole is rotated once,
\* without permutation.
C10_ForcesPermuted ==
    (pc = "transformed" /\ Consistent(call.k)) =>
        LET arg == evaluate(cell, call.number, 1)
            new == call.new_trajectory
            n == Len(cell.positions)
        IN  /\ error = "none"
            /\ Len(new.forces) = 1 /\ Len(new.forces[1]) = n
            /\ \A i \in 1..n : \E j \in 1..n :
                  /\ GoesTo(call.k, j, i)
                  /\ \A j2 \in 1..n : GoesTo(call.k, j2, i) => j2 = j
                  /\ \A i2 \in 1..n : GoesTo(call.k, j, i2) => i2 = i
                  /\ Scale(CartOf(call.k).den, new.forces[1][i]) =
                        MatVec(CartOf(call.k).num, Last(arg.forces)[j])
            /\ new.electronic_dipole_cartesian_axes =
                  <<RotateExact(CartOf(call.k), Last(arg.electronic_dipole_cartesian_axes))>>

C10_Witness ==
    /\ pc = "transformed" /\ Consistent(call.k) /\ Len(cell.positions) >= 3
    /\ \E i, j \in 1..Len(cell.positions) : i # j /\ GoesTo(call.k, j, i) /\ ~GoesTo(call.k, i, j)
    /\ ~IsRotation(call.k, Identity3)

\* C11: transform_trajectory with an operation and then with the inverse
\* operation gives back the forces and the dipole of the original evaluation.
C11_RoundTrip ==
    (pc = "roundtrip" /\ error = "none") =>
        /\ call.new_trajectory.forces = <<Last(evaluate(cell, call.number, 1).forces)>>
        /\ call.new_trajectory.electronic_dipole_cartesian_axes =
              <<Last(evaluate(cell, call.number, 1).electronic_dipole_cartesian_axes)>>

\* The sum over the returned atoms of component (k, i, j).
AtomSum(k, i, j) == TensorSum(call.dph0, Len(call.dph0))[k][i][j]

\* C17: after the symmetrization the sum over the returned atoms of every
\* tensor component is zero, also when the atoms of the primitive cell were
\* selected.
C17_SumRule ==
    (pc = "symmetrized" /\ error = "none") =>
        \A k, i, j \in 1..3 : AtomSum(k, i, j) = 0

\* Atom I of the unit cell is returned at place n, and its symmetrized tensor
\* differs from the raw one by more than 0.1 in some component.
LargeDifference(n, I) ==
    \E k, i, j \in 1..3 :
        Abs(RawRaman(cell, call.offset)[I][k][i][j] * call.den - call.dph0[n][k][i][j])
            > WarningThreshold * call.den

\* C18: a difference above 0.1 between raw and symmetrized dChi/dr tensors
\* gives a warning and the symmetrized tensors are still returned; without
\* such a difference there is no warning; the only error of a call is the
\* failed atom lookup, whatever the difference.
C18_WarningNotFatal ==
    pc = "symmetrized" =>
        /\ error = "none" =>
              /\ Len(call.dph0) > 0
              /\ call.primitive_matrix = "None" =>
                    /\ Len(call.dph0) = Len(cell.positions)
                    /\ call.warning <=> \E I \in 1..Len(cell.positions) : LargeDifference(I, I)
              /\ call.primitive_matrix = "given" =>
                    \A n \in 1..Len(call.dph0) :
                        LargeDifference(n, PrimitiveIndex(cell, operations)[n]) => call.warning
        /\ error # "none" =>
              \E m \in 1..Len(operations), i \in 1..Len(cell.positions) :
                  NonZero(cell, operations[m].r, operations[m].t, symprec, i) = <<>>

C18_Witness ==
    /\ pc = "symmetrized" /\ error = "none" /\ call.warning /\ call.is_symmetry
    /\ Len(operations) > 1 /\ Len(call.dph0) > 1


(***************************************************************************)
(* Vocabulary of the properties of the work chain.                         *)
(***************************************************************************)
\* The scfs with a finite field submitted so far for one number.
FieldScfs(number) ==
    {pk \in 1..Len(processes) :
        processes[pk].label = "field_index_" /\ processes[pk].number = number}

\* The rational value = sign * k * h, times diagonal_scale for the numbers 3, 4, 5.
IsStep(value, number, sign, k, h, diagonal_scale) ==
    IF number \in {3, 4, 5}
    THEN value.num * h.den * 1000 = sign * k * h.num * diagonal_scale * value.den
    ELSE value.num * h.den = sign * k * h.num * value.den

\* C12: the accuracy put in the context by run_null_field_scf is the given
\* central_difference.accuracy when there is one, whatever the field;
\* otherwise it is 4 for a field below 5e-4 and 2 for a field of 5e-4 or more.
C12_AdaptiveOrder ==
    "accuracy" \in DOMAIN ctx =>
        /\ "accuracy" \in DOMAIN inputs => ctx["accuracy"] = inputs.accuracy
        /\ "accuracy" \notin DOMAIN inputs =>
              /\ ctx["electric_field"] < 5 => ctx["accuracy"] = 4
              /\ ctx["electric_field"] >= 5 => ctx["accuracy"] = 2
        /\ ctx["steps"] * 2 = ctx["accuracy"]

\* A run without a given accuracy whose field is exactly at the threshold.
C12_Witness ==
    /\ "accuracy" \in DOMAIN ctx
    /\ "accuracy" \notin DOMAIN inputs
    /\ ctx["electric_field"] = 5
    /\ ctx["accuracy"] = 2
    /\ FieldScfs(0) # {}

C15_DataOrder ==
    \A d \in 1..Len(processes) :
        processes[d].label = "numerical_derivatives" =>
            LET field_index_ == processes[d].parameters.data.field_index_
                a == ctx["accuracy"]
                h == get_electric_field_step(ctx["electric_field"], a)
                holds(number, key, sign, k) ==
                    /\ processes[field_index_[number][key]].number = number
                    /\ IsStep(processes[field_index_[number][key]].value, number, sign, k, h,
                              inputs.diagonal_scale)
            IN  /\ DOMAIN field_index_ = 0..(ctx["numbers"] - 1)
                /\ \A number \in DOMAIN field_index_ :
                      /\ DOMAIN field_index_[number] = 0..(a - 1)
                      /\ \A k \in 0..((a \div 2) - 1) :
                            /\ holds(number, 2 * k, 1, k + 1)
                            /\ holds(number, 2 * k + 1, -1, k + 1)

\* The numerical derivatives of a fourth-order stencil have been submitted
\* after some scf terminated before one submitted earlier.
C15_Witness ==
    /\ out_of_order
    /\ ctx["accuracy"] = 4
    /\ \E d \in 1..Len(processes) : processes[d].label = "numerical_derivatives"

\* C16: every step that leaves the exposed outputs of the numerical
\* derivatives published is the step results, taken when they were not yet
\* published and every sub-process that was run had finished ok, and it ends
\* the work chain with exit status 0; no step follows the end of the work
\* chain, and a step that ends it with another status or an exception
\* leaves no tensor published.
C16_PublishedOnceAtTheEnd ==
    [][/\ "numerical_derivatives" \in DOMAIN outputs' =>
              /\ step = "results" /\ step' = "finished" /\ exit_status' = 0
              /\ "numerical_derivatives" \notin DOMAIN outputs
              /\ outputs'["numerical_derivatives"] =
                     processes[ctx["numerical_derivatives"].pk].out
              /\ \A pk \in 1..Len(processes) : processes[pk].state = "finished_ok"
              /\ {"null_field", "field_index_", "numerical_derivatives"} \subseteq
                     {processes[pk].label : pk \in 1..Len(processes)}
       /\ step \notin {"finished", "excepted", "rejected"}
       /\ (step' \in {"excepted", "rejected"} \/ exit_status' # 0) =>
              "numerical_derivatives" \notin DOMAIN outputs']_vars

\* The tensors have been published at the end of a run with an nscf.
C16_Witness ==
    /\ step = "finished" /\ exit_status = 0
    /\ "numerical_derivatives" \in DOMAIN outputs
    /\ "estimated_electric_field" \in DOMAIN outputs
    /\ out_of_order

\* The scfs built by get_inputs: the null field and the finite fields.
ElectricEnthalpyScfs ==
    {pk \in 1..Len(processes) : processes[pk].label \in {"null_field", "field_index_"}}

\* C19: every scf built for the electric enthalpy has SYSTEM.occupations
\* equal to 'fixed' and neither SYSTEM.degauss nor SYSTEM.smearing, whatever
\* scf.pw.parameters holds.
C19_FixedOccupations ==
    \A pk \in ElectricEnthalpyScfs :
        LET SYSTEM == processes[pk].parameters["SYSTEM"]
        IN  /\ "occupations" \in DOMAIN SYSTEM
            /\ SYSTEM["occupations"] = "fixed"
            /\ "degauss" \notin DOMAIN SYSTEM
            /\ "smearing" \notin DOMAIN SYSTEM

\* Scfs with null and finite fields built from parameters with a smearing.
C19_Witness ==
    /\ "SYSTEM" \in DOMAIN inputs.parameters
    /\ {"occupations", "degauss", "smearing"} \subseteq DOMAIN inputs.parameters["SYSTEM"]
    /\ inputs.parameters["SYSTEM"]["occupations"] = "smearing"
    /\ \E pk \in ElectricEnthalpyScfs : processes[pk].label = "null_field"
    /\ \E pk \in ElectricEnthalpyScfs : processes[pk].label = "field_index_"

\* The spin settings of the inputs.
Nspin == Get(Get(inputs.parameters, "SYSTEM", <<>>), "nspin", 1)

MagnetizationGiven ==
    \E key \in {"starting_magnetization", "tot_magnetization"} :
        key \in DOMAIN Get(inputs.parameters, "SYSTEM", <<>>)

\* C20: once setup has run, a work chain whose nspin is neither 1 nor 2 has
\* raised NotImplementedError, one with nspin = 2 and no magnetization has
\* raised as well (NameError), neither has submitted a sub-process; with
\* nspin = 1, or nspin = 2 and a magnetization, setup raises nothing.
C20_SpinSettings ==
    step \notin {"created", "rejected", "setup"} =>
        /\ Nspin \notin {1, 2} =>
              step = "excepted" /\ error = "NotImplementedError" /\ processes = <<>>
        /\ Nspin = 2 /\ ~MagnetizationGiven =>
              step = "excepted" /\ error = "NameError" /\ processes = <<>>
        /\ (Nspin = 1 \/ (Nspin = 2 /\ MagnetizationGiven))
           /\ inputs.property \in _AVAILABLE_PROPERTIES =>
              /\ "is_magnetic" \in DOMAIN ctx
              /\ ctx["is_magnetic"] = (Nspin = 2)
              /\ error \notin {"NotImplementedError", "NameError"}

\* setup has raised for nspin = 4.
C20_Witness ==
    /\ step = "excepted" /\ error = "NotImplementedError"
    /\ Nspin = 4
    /\ processes = <<>>

\* The sub-processes submitted so far with a label.
Labelled(label) == {pk \in 1..Len(processes) : processes[pk].label = label}

\* C21: the inputs are rejected when both electric_field and
\* electric_field_scale are given and when neither is; with electric_field
\* given no nscf is ever submitted and the field of the context is the
\* input; with electric_field_scale given every electric enthalpy scf comes
\* after an nscf that finished ok, and the field of the context is the
\* estimate computed from the outputs of that nscf.
C21_OneFieldInput ==
    LET field == "electric_field" \in DOMAIN inputs
        scale == "electric_field_scale" \in DOMAIN inputs
    IN  /\ step # "created" /\ (field <=> scale) => step = "rejected" /\ processes = <<>>
        /\ step = "rejected" /\ ~(field <=> scale) =>
               PortErrors(inputs) \ {validate_inputs(inputs)} # {}
        /\ field /\ ~scale =>
               /\ Labelled("nscf") = {}
               /\ "estimated_electric_field" \notin DOMAIN outputs
               /\ "electric_field" \in DOMAIN ctx =>
                      ctx["electric_field"] = inputs.electric_field
        /\ scale /\ ~field /\ (ElectricEnthalpyScfs # {} \/ "electric_field" \in DOMAIN ctx) =>
               \E pk \in Labelled("nscf") :
                  /\ processes[pk].state = "finished_ok"
                  /\ ctx["electric_field"] =
                         compute_electric_field(processes[pk].out, inputs.electric_field_scale)
                  /\ outputs["estimated_electric_field"] = ctx["electric_field"]

\* The null-field scf of a run with electric_field_scale has been submitted.
C21_Witness ==
    /\ "electric_field_scale" \in DOMAIN inputs
    /\ Labelled("nscf") # {}
    /\ Labelled("null_field") # {}

\* The scf of a number at sign * k * h.
ScfAt(number, sign, k) ==
    {pk \in FieldScfs(number) :
        IsStep(processes[pk].value, number, sign, k,
               get_electric_field_step(ctx["electric_field"], ctx["accuracy"]),
               inputs.diagonal_scale)}

\* C25: every scf at +-h has the remote folder of the null-field scf as
\* parent folder, and every scf of a number at sign * k * h with k >= 2 has
\* the remote folder of the scf of the same number at sign * (k-1) * h.
C25_RestartFolder ==
    "field_index_" \in DOMAIN ctx =>
        \A number \in 0..(ctx["numbers"] - 1), sign \in {1, -1},
           k \in 1..(ctx["accuracy"] \div 2) :
            \A pk \in ScfAt(number, sign, k) :
                IF k = 1
                THEN processes[pk].parent_folder = RemoteFolder(ctx["null_field"])
                ELSE /\ processes[pk].parent_folder.of = "node"
                     /\ processes[pk].parent_folder.pk \in ScfAt(number, sign, k - 1)

\* The scf of direction 4 at -2h has been submitted.
C25_Witness ==
    /\ "field_index_" \in DOMAIN ctx
    /\ ctx["accuracy"] = 4 /\ ctx["numbers"] = 6
    /\ ScfAt(4, -1, 2) # {}
    /\ out_of_order

\* C26: a step that reads ctx.base_scf is about to run only when base_scf
\* is in the context and finished ok: run_nscf always reads it,
\* run_null_field_scf and run_electric_field_scfs read it without parent_scf
\* and, through get_inputs, for a magnetic system.
C26_BaseScfBeforeRead ==
    LET reads == \/ step = "run_nscf"
                 \/ /\ step \in {"run_null_field_scf", "run_electric_field_scfs"}
                    /\ ("parent_scf" \notin DOMAIN inputs \/ is_magnetic(ctx))
    IN  reads => /\ "base_scf" \in DOMAIN ctx
                 /\ is_finished_ok(processes, ctx["base_scf"])

\* C27: the loop never runs more than accuracy / 2 iterations; when the
\* numerical derivatives are submitted it has run exactly accuracy / 2
\* iterations and submitted accuracy scfs for each of the numbers directions,
\* numbers * accuracy in all; and once the loop is entered, the numerical
\* derivatives are eventually submitted unless a sub-process fails.
C27_LoopTerminates ==
    /\ []("iteration" \in DOMAIN ctx =>
             /\ ctx["steps"] * 2 = ctx["accuracy"]
             /\ ctx["iteration"] <= ctx["steps"]
             /\ Cardinality(ElectricEnthalpyScfs \ Labelled("null_field")) =
                    ctx["numbers"] * 2 * ctx["iteration"]
             /\ Labelled("numerical_derivatives") # {} =>
                    /\ ctx["iteration"] = ctx["steps"]
                    /\ ctx["numbers"] \in {3, 6}
                    /\ Cardinality(ElectricEnthalpyScfs \ Labelled("null_field")) =
                           ctx["numbers"] * ctx["accuracy"]
                    /\ \A number \in 0..(ctx["numbers"] - 1) :
                           Cardinality(FieldScfs(number)) = ctx["accuracy"])
    /\ (step = "run_electric_field_scfs")
           ~> (\/ Labelled("numerical_derivatives") # {}
               \/ \E pk \in 1..Len(processes) : processes[pk].state = "failed")

\* The numerical derivatives have been submitted after the iterations of the
\* highest order of accuracy in three directions.
C27_Witness ==
    /\ Labelled("numerical_derivatives") # {}
    /\ ctx["iteration"] = MaxHalfOrder /\ ctx["numbers"] = 3
    /\ Cardinality(ElectricEnthalpyScfs \ Labelled("null_field")) = 6 * MaxHalfOrder

\* The sub-processes that did not finish ok.
Failed == {pk \in 1..Len(processes) : processes[pk].state = "failed"}

\* The work chain is at the step `inspect` with the failed sub-process not yet
\* inspected, or it has ended there with the exit code and its message.
EndsAt(inspect, status, direction) ==
    \/ step = inspect /\ exit_status = 0
    \/ step = "finished" /\ exit_status = status /\ exit_message = direction

IrrNumbers == {irr_numbers[i] : i \in 1..Len(irr_numbers)}

\* C29: for every symmetry group the direction 2 is in the numbers returned
\* by get_irreducible_numbers_and_signs, and for N = 6 the direction 3 as
\* well: the reduction never removes a seed direction.
C29_SeedsKept ==
    Selected => /\ 2 \in IrrNumbers
                /\ number_id = 6 => 3 \in IrrNumbers

\* The reduction of six directions has removed some of them and kept the seeds.
C29_Witness ==
    /\ Selected /\ number_id = 6
    /\ Len(irr_numbers) < 6 /\ Len(operations) > 1
    /\ {2, 3} \subseteq IrrNumbers

\* One of the optional structure inputs is given, in the inputs or in the
\* phonon_workchain namespace.
OptionalGiven ==
    \E name \in {"symprec", "is_symmetry", "distinguish_kinds", "primitive_matrix",
                  "supercell_matrix"} :
       name \in DOMAIN inputs \/ name \in DOMAIN inputs["phonon_workchain"]

\* C22: the inputs of BaseWorkChain are accepted exactly when one source of
\* structure information is given, either preprocess_data alone or a
\* structure with any of the optional inputs, never both and never the
\* optional inputs without a structure, and nac_parameters and
\* dielectric_workchain are not both given.
C22_BaseInputsAccepted ==
    LET preprocess_data == "preprocess_data" \in DOMAIN inputs
        structure == "structure" \in DOMAIN inputs
        one_source == \/ preprocess_data /\ ~structure /\ ~OptionalGiven
                      \/ structure /\ ~preprocess_data
        accepted == /\ one_source
                    /\ ~("nac_parameters" \in DOMAIN inputs /\
                         "dielectric_workchain" \in DOMAIN inputs)
    IN  step # "created" =>
           /\ (step # "rejected") = accepted
           /\ (error = "None") = accepted

\* A structure with a symprec and the inputs of the dielectric work chain has
\* been accepted.
C22_Witness ==
    /\ step = "set_ctx_variables" /\ error = "None"
    /\ "structure" \in DOMAIN inputs /\ "symprec" \in DOMAIN inputs["phonon_workchain"]
    /\ "dielectric_workchain" \in DOMAIN inputs

\* The labels of the supercell scfs of the context, and the sub-processes
\* inspected by inspect_all_runs that did not finish ok.
RunsOfContext == {label \in DOMAIN ctx : startswith_RUN_PREFIX(label)}

NotFinishedOk ==
    {label \in RunsOfContext \cup ({"dielectric_workchain"} \cap DOMAIN ctx) :
        processes[ctx[label].pk].state # "finished_ok"}

\* C30: inspect_all_runs returns ERROR_SUB_PROCESS_FAILED, 402, exactly when
\* at least one supercell scf or the dielectric work chain did not finish ok;
\* every sub-process is inspected before it returns, so that the forces and
\* the energy of each supercell scf that finished ok are emitted whatever
\* failed, and none are emitted for a failed one nor before the inspection.
C30_AllRunsInspected ==
    LET emitted(label) == /\ <<"supercells_forces", label>> \in DOMAIN outputs
                          /\ <<"supercells_energies", label>> \in DOMAIN outputs
        none(label) == /\ <<"supercells_forces", label>> \notin DOMAIN outputs
                       /\ <<"supercells_energies", label>> \notin DOMAIN outputs
    IN  /\ step = "finished" /\ exit_status # 400 =>
              /\ (exit_status = 402) = (NotFinishedOk # {})
              /\ exit_status \in {0, 402}
              /\ \A label \in RunsOfContext :
                     IF label \in NotFinishedOk THEN none(label)
                     ELSE /\ emitted(label)
                          /\ outputs[<<"supercells_forces", label>>] =
                                 get_forces(ctx[label].pk)
              /\ (<<"dielectric_workchain">> \in DOMAIN outputs) =
                     (/\ "dielectric_workchain" \in DOMAIN ctx
                      /\ "dielectric_workchain" \notin NotFinishedOk)
        /\ ~(step = "finished" /\ exit_status # 400) =>
              \A n \in 1..Len(RunLabels) : none(RunLabels[n])

\* The first supercell scf failed, the second one and the dielectric work
\* chain finished ok: the work chain returns 402 and has emitted the forces
\* of the second.
C30_Witness ==
    /\ step = "finished" /\ exit_status = 402
    /\ NotFinishedOk = {RunLabels[2]}
    /\ <<"supercells_forces", RunLabels[3]>> \in DOMAIN outputs
    /\ <<"dielectric_workchain">> \in DOMAIN outputs

\* C23: with vibrational data that has non-analytical parameters,
\* run_results completes and sets the output ir_averaged, and it sets
\* raman_averaged exactly when the vibrational data has Raman parameters.
C23_AveragesEmitted ==
    step \notin {"created", "rejected", "run_results"} =>
       /\ step = "finished"
       /\ "ir_averaged" \in DOMAIN outputs
       /\ ("raman_averaged" \in DOMAIN outputs) =
              inputs["vibrational_data"].has_raman_parameters

\* C24: elaborate_tensors returns an array set that holds dielectric and
\* born_charges, and raman_tensors and nlo_susceptibility as well exactly
\* when both are among the input tensors; the call of
\* symmetrize_susceptibility_derivatives succeeds then, and it succeeds in
\* elaborate_susceptibility_derivatives.
C24_TensorsElaborated ==
    LET both == {"raman_tensors", "nlo_susceptibility"} \subseteq inputs["tensors"]
    IN  /\ /\ call.fn = "elaborate_tensors"
           /\ {"dielectric", "born_charges"} \subseteq inputs["tensors"]
           => /\ step = "returned"
              /\ DOMAIN outputs =
                     {"dielectric", "born_charges"} \cup
                     (IF both THEN {"raman_tensors", "nlo_susceptibility"} ELSE {})
        /\ call.fn = "elaborate_susceptibility_derivatives" /\ both
           => /\ step = "returned"
              /\ DOMAIN outputs = {"raman_tensors", "nlo_susceptibility"}

\* The scfs in an electric field, the null field included.
ElfieldScfs ==
    {pk \in 1..Len(processes) :
        processes[pk].label \in {"null_electric_field"} \cup Range(ElectricFieldKeys)}

FiniteFieldScfs == {pk \in 1..Len(processes) : processes[pk].label \in Range(ElectricFieldKeys)}

Vectors == [1..3 -> {0, inputs["elfield"]}]

\* C32: under validated inputs every card of the electric field has exactly
\* one non-zero component and find_direction returns the index of that
\* component and True for it, and 3 and False for the all-zero vector only;
\* the keys electric_field_<direction> of the submitted scfs are pairwise
\* distinct, so that the data passed to the numerical derivatives hold the
\* result of the null field and exactly one result for each launched direction.
C32_OneResultPerDirection ==
    /\ "elfield_card" \in DOMAIN ctx =>
          /\ \A n \in 1..Len(ctx["elfield_card"]) :
                 \E i \in 1..3 :
                    /\ \A j \in 1..3 : (ctx["elfield_card"][n][j] # 0) = (j = i)
                    /\ find_direction(ctx["elfield_card"][n]) = <<i - 1, TRUE>>
          /\ \A v \in Vectors :
                 /\ (find_direction(v) = <<3, FALSE>>) = (v = <<0, 0, 0>>)
                 /\ find_direction(v)[2] =>
                        /\ v[find_direction(v)[1] + 1] # 0
                        /\ \A j \in 1..find_direction(v)[1] : v[j] = 0
          /\ FiniteFieldScfs # {} =>
                 /\ Cardinality(FiniteFieldScfs) = Len(ctx["elfield_card"])
                 /\ \A p, q \in FiniteFieldScfs :
                        processes[p].label = processes[q].label => p = q
                 /\ \A p \in FiniteFieldScfs :
                        /\ processes[p].label \in DOMAIN ctx
                        /\ ctx[processes[p].label].pk = p
    /\ \A nd \in Labelled("numerical_derivatives") :
          /\ DOMAIN processes[nd].data =
                 {"null_electric_field"} \cup {processes[p].label : p \in FiniteFieldScfs}
          /\ Cardinality(DOMAIN processes[nd].data) = 1 + Len(ctx["elfield_card"])
          /\ \A label \in DOMAIN processes[nd].data :
                 \E p \in ElfieldScfs :
                    /\ processes[p].label = label
                    /\ processes[nd].data[label] = processes[p].out.output_trajectory

\* The numerical derivatives have been submitted with the results of the
\* null field and of the three directions.
C32_Witness ==
    /\ \E nd \in Labelled("numerical_derivatives") :
          DOMAIN processes[nd].data =
             {"null_electric_field", "electric_field_0", "electric_field_1", "electric_field_2"}
    /\ Len(ctx["elfield_card"]) = 3

\* Two arrays hold the same numbers; two results are the same.
SameArray(a, b) == Len(a) = Len(b) /\ \A I \in 1..Len(a) : QEq(a[I], b[I])

SameResult(r, s) ==
    /\ r.empty = s.empty
    /\ r.sqrt_volume = s.sqrt_volume
    /\ QEq(r.value, s.value)

\* C33: sum_rules means the same in compute_raman_susceptibility_tensors and
\* in compute_polarization_vectors: what a call returns is computed from the
\* arrays less their average over the atoms exactly when sum_rules is True,
\* and from the arrays as given when it is False.
C33_SumRulesFlag ==
    \A i \in 1..Len(outputs) :
       LET mean_subtracted(array) == IF outputs[i].sum_rules THEN Corrected(array) ELSE array
           expected(array) ==
               IF inputs.phonopy_instance.neigvs = <<>> THEN QInt(0)
               ELSE tensordot(inputs.phonopy_instance.neigvs, mean_subtracted(array), 1)
       IN  IF outputs[i].fn = "compute_polarization_vectors"
           THEN QEq(outputs[i].result.value, expected(outputs[i].born))
           ELSE inputs.nlo_susceptibility = 0 \/ inputs.q_direction = 0 =>
                   QEq(outputs[i].result.value,
                       expected(Scaled(outputs[i].raman_tensors, inputs.phonopy_instance.volume)))

\* C34: the two functions leave the caller's raman_tensors and the Born
\* charges of the phonopy instance as they were, and two calls of one of them
\* with the same arguments return the same result.
C34_InputsLeftAlone ==
    /\ SameArray(inputs.raman_tensors, ctx.raman_tensors)
    /\ SameArray(inputs.phonopy_instance.born, ctx.phonopy_instance.born)
    /\ \A i, j \in 1..Len(outputs) :
          outputs[i].fn = outputs[j].fn /\ outputs[i].sum_rules = outputs[j].sum_rules
             => SameResult(outputs[i].result, outputs[j].result)

====
